---------------------------- MODULE Spec2Model ----------------------------
(***************************************************************************)
(* A model of the stepper-motion engine: the motion-profile calculator     *)
(* (src/src/motion/profile.rs), the step executor                          *)
(* (src/src/motion/executor.rs), the soft limits (src/src/config/limits.rs)*)
(* and the type-state driver (src/src/motor/driver.rs).                    *)
(*                                                                         *)
(* Numbers.  The program computes with u32, i64 and f32.  TLC's integers   *)
(* are 32-bit signed, so                                                   *)
(*   - a u32 or an i64 is a record [hi, lo] standing for hi * 2^30 + lo    *)
(*     with 0 <= lo < 2^30 (hi is negative for a negative number);         *)
(*   - an f32 is a record [k, s, m, e]: k is "zero", "fin", "inf" or       *)
(*     "nan", s the sign bit, and a finite value is m * 2^e with a 24-bit  *)
(*     mantissa; every operation rounds to nearest, ties to even, as       *)
(*     IEEE-754 binary32 does.                                             *)
(***************************************************************************)
EXTENDS Integers, Sequences, FiniteSets, TLC

(***************************************************************************)
(* Wide integers (u32, i64, u64).                                          *)
(***************************************************************************)
WBase == 2^30

WNorm(h, l) == [hi |-> h + (l \div WBase), lo |-> l % WBase]

\* A small integer as a wide integer.
W(n) == WNorm(0, n)

WAdd(a, b) == WNorm(a.hi + b.hi, a.lo + b.lo)

WSub(a, b) == WNorm(a.hi - b.hi, a.lo - b.lo)

WNeg(a) == WSub(W(0), a)

WLt(a, b) == a.hi < b.hi \/ (a.hi = b.hi /\ a.lo < b.lo)

WLe(a, b) == a = b \/ WLt(a, b)

WIsNeg(a) == a.hi < 0

\* i64::unsigned_abs
unsigned_abs(a) == IF WIsNeg(a) THEN WNeg(a) ELSE a

\* `as u32` of an integer: the low 32 bits.
AsU32(a) == [hi |-> a.hi % 4, lo |-> a.lo]

\* u32::MAX = 2^32 - 1
U32_MAX == [hi |-> 3, lo |-> WBase - 1]

\* u32::saturating_sub
saturating_sub(a, b) == IF WLt(a, b) THEN W(0) ELSE WSub(a, b)

\* u32::max
WMax(a, b) == IF WLt(a, b) THEN b ELSE a

(***************************************************************************)
(* IEEE-754 binary32.                                                      *)
(***************************************************************************)
MantBits == 24
MinExp == -149
MaxExp == 104

F32Zero(s) == [k |-> "zero", s |-> s, m |-> 0, e |-> 0]
F32Inf(s) == [k |-> "inf", s |-> s, m |-> 0, e |-> 0]
F32NaN == [k |-> "nan", s |-> 0, m |-> 0, e |-> 0]

RECURSIVE BitLen(_)
BitLen(n) == IF n = 0 THEN 0 ELSE 1 + BitLen(n \div 2)

\* sig shifted right by n bits; st records whether a one was shifted out.
ShiftRightSticky(sig, st, n) ==
    IF n <= 0 THEN [sig |-> sig, st |-> st]
    ELSE IF n >= 31 THEN [sig |-> 0, st |-> st \/ sig # 0]
    ELSE [sig |-> sig \div 2^n, st |-> st \/ (sig % 2^n) # 0]

\* The f32 nearest to (-1)^s * (sig + f) * 2^exp, where 0 < f < 1 when st and
\* f = 0 otherwise: round to nearest, ties to even; overflow gives infinity,
\* underflow a subnormal or zero.  The rounding goes through five stages.

\* Stage 5: the rounded mantissa m4 with its exponent e4.
RoundFinal(s, m4, e4) ==
    IF m4 = 0 THEN F32Zero(s)
    ELSE IF e4 > MaxExp THEN F32Inf(s)
    ELSE [k |-> "fin", s |-> s, m |-> m4, e |-> e4]

\* Stage 4: a mantissa that rounded up to 2^MantBits carries into the exponent.
RoundCarry(s, m3, e2) ==
    RoundFinal(s, IF m3 = 2^MantBits THEN 2^(MantBits - 1) ELSE m3,
                  IF m3 = 2^MantBits THEN e2 + 1 ELSE e2)

\* Stage 3: n2.sig holds the mantissa and three guard bits.
RoundNearest(s, n2, e2) ==
    RoundCarry(s,
               IF (n2.sig % 8) > 4
                  \/ ((n2.sig % 8) = 4 /\ (n2.st \/ (n2.sig \div 8) % 2 = 1))
               THEN (n2.sig \div 8) + 1
               ELSE n2.sig \div 8,
               e2)

\* Stage 2: a subnormal keeps the exponent MinExp.
RoundSubnormal(s, n1, e1) ==
    RoundNearest(s,
                 IF e1 < MinExp THEN ShiftRightSticky(n1.sig, n1.st, MinExp - e1)
                 ELSE n1,
                 IF e1 < MinExp THEN MinExp ELSE e1)

\* Stage 1: sig brought to exactly MantBits + 3 bits by a shift of `up`.
RoundAlign(s, sig, exp, st, up) ==
    RoundSubnormal(s,
                   IF up >= 0 THEN [sig |-> sig * 2^up, st |-> st]
                   ELSE ShiftRightSticky(sig, st, -up),
                   (exp - up) + 3)

RoundPack(s, sig, exp, st) ==
    IF sig = 0 /\ ~st THEN F32Zero(s)
    ELSE RoundAlign(s, sig, exp, st, MantBits + 3 - BitLen(sig))

\* `n as f32` for a small integer n.
F32FromInt(n) ==
    RoundPack(IF n < 0 THEN 1 ELSE 0, IF n < 0 THEN -n ELSE n, 0, FALSE)

\* The f32 nearest to (-1)^s * a for a wide magnitude a whose high word has
\* len bits.
F32FromMag(s, a, len) ==
    RoundPack(s,
              IF a.hi = 0 THEN a.lo
              ELSE IF len >= 27 THEN a.hi \div 2^(len - 27)
              ELSE a.hi * 2^(27 - len) + (a.lo \div 2^(len + 3)),
              IF a.hi = 0 THEN 0 ELSE len + 3,
              IF a.hi = 0 THEN FALSE
              ELSE IF len >= 27 THEN (a.hi % 2^(len - 27)) # 0 \/ a.lo # 0
              ELSE (a.lo % 2^(len + 3)) # 0)

\* `w as f32` for a wide integer (u32 or i64).
F32FromWide(w) ==
    F32FromMag(IF WIsNeg(w) THEN 1 ELSE 0, unsigned_abs(w),
               BitLen(unsigned_abs(w).hi))

\* A finite non-zero value with its mantissa brought to exactly 24 bits.
F32Normal(x) ==
    [m |-> x.m * 2^(MantBits - BitLen(x.m)),
     e |-> x.e - (MantBits - BitLen(x.m))]

\* |x| < |y| for finite non-zero x, y.
MagLt(x, y) == x.e < y.e \/ (x.e = y.e /\ x.m < y.m)

F32Neg(x) == IF x.k = "nan" THEN x ELSE [x EXCEPT !.s = 1 - x.s]

\* big + small for finite non-zero |big| >= |small|; sh is small's mantissa
\* aligned to big's exponent, with three guard bits.
F32AddAligned(big, small, sh) ==
    IF big.s # small.s /\ big.m = small.m /\ big.e = small.e THEN F32Zero(0)
    ELSE RoundPack(big.s,
                   IF big.s = small.s THEN big.m * 8 + sh.sig
                   ELSE IF sh.st THEN big.m * 8 - sh.sig - 1
                   ELSE big.m * 8 - sh.sig,
                   big.e - 3, sh.st)

F32AddFinite(big, small) ==
    F32AddAligned(big, small,
                  ShiftRightSticky(small.m * 8, FALSE, big.e - small.e))

F32Add(x, y) ==
    IF x.k = "nan" \/ y.k = "nan" THEN F32NaN
    ELSE IF x.k = "inf"
    THEN (IF y.k = "inf" /\ y.s # x.s THEN F32NaN ELSE x)
    ELSE IF y.k = "inf" THEN y
    ELSE IF x.k = "zero"
    THEN (IF y.k = "zero" THEN F32Zero(IF x.s = 1 /\ y.s = 1 THEN 1 ELSE 0) ELSE y)
    ELSE IF y.k = "zero" THEN x
    ELSE F32AddFinite(IF MagLt(x, y) THEN y ELSE x, IF MagLt(x, y) THEN x ELSE y)

F32Sub(x, y) == F32Add(x, F32Neg(y))

\* The 48-bit product hi * 2^24 + lo of two mantissas, rounded: r is the
\* number of bits of hi beyond the three that RoundPack takes.
F32MulShift(s, hi, lo, e, r) ==
    RoundPack(s, hi * 2^(24 - r) + (lo \div 2^r), e + r, (lo % 2^r) # 0)

F32MulWords(s, hi, lo, e) ==
    F32MulShift(s, hi, lo, e, IF BitLen(hi) > 3 THEN BitLen(hi) - 3 ELSE 0)

\* hh, cross and ll are the partial products of the 12-bit halves.
F32MulSum(s, hh, cross, low, e) ==
    F32MulWords(s, hh + (cross \div 4096) + (low \div 2^24), low % 2^24, e)

F32MulHalves(s, xh, xl, yh, yl, e) ==
    F32MulSum(s, xh * yh, xh * yl + xl * yh,
              xl * yl + ((xh * yl + xl * yh) % 4096) * 4096, e)

F32Mul(x, y) ==
    IF x.k = "nan" \/ y.k = "nan" THEN F32NaN
    ELSE IF x.k = "inf" \/ y.k = "inf"
    THEN (IF x.k = "zero" \/ y.k = "zero" THEN F32NaN
          ELSE F32Inf(IF x.s = y.s THEN 0 ELSE 1))
    ELSE IF x.k = "zero" \/ y.k = "zero" THEN F32Zero(IF x.s = y.s THEN 0 ELSE 1)
    ELSE F32MulHalves(IF x.s = y.s THEN 0 ELSE 1,
                      x.m \div 4096, x.m % 4096, y.m \div 4096, y.m % 4096,
                      x.e + y.e)

\* n more quotient bits of rem / d.
RECURSIVE DivBits(_, _, _, _)
DivBits(q, rem, d, n) ==
    IF n = 0 THEN [q |-> q, rem |-> rem]
    ELSE IF 2 * rem >= d THEN DivBits(2 * q + 1, 2 * rem - d, d, n - 1)
    ELSE DivBits(2 * q, 2 * rem, d, n - 1)

\* The quotient d of the mantissas, 26 bits beyond the integer part.
F32DivRound(s, d, e) == RoundPack(s, d.q, e, d.rem # 0)

\* a / b for normalised a, b.
F32DivNormal(s, a, b) ==
    F32DivRound(s, DivBits(a.m \div b.m, a.m % b.m, b.m, 26), a.e - b.e - 26)

F32Div(x, y) ==
    IF x.k = "nan" \/ y.k = "nan" THEN F32NaN
    ELSE IF x.k = "inf"
    THEN (IF y.k = "inf" THEN F32NaN ELSE F32Inf(IF x.s = y.s THEN 0 ELSE 1))
    ELSE IF y.k = "inf" THEN F32Zero(IF x.s = y.s THEN 0 ELSE 1)
    ELSE IF y.k = "zero"
    THEN (IF x.k = "zero" THEN F32NaN ELSE F32Inf(IF x.s = y.s THEN 0 ELSE 1))
    ELSE IF x.k = "zero" THEN F32Zero(IF x.s = y.s THEN 0 ELSE 1)
    ELSE F32DivNormal(IF x.s = y.s THEN 0 ELSE 1, F32Normal(x), F32Normal(y))

\* The integer square root of n < 2^26 with its remainder, bit b downwards.
RECURSIVE ISqrt(_, _, _)
ISqrt(n, r, b) ==
    IF b < 0 THEN [root |-> r, rem |-> n - r * r]
    ELSE IF (r + 2^b) * (r + 2^b) <= n THEN ISqrt(n, r + 2^b, b - 1)
    ELSE ISqrt(n, r, b - 1)

\* n more bits of the square root (each step brings down two zero bits).
RECURSIVE SqrtBits(_, _, _)
SqrtBits(root, rem, n) ==
    IF n = 0 THEN [root |-> root, rem |-> rem]
    ELSE IF 4 * rem >= 4 * root + 1
    THEN SqrtBits(2 * root + 1, 4 * rem - (4 * root + 1), n - 1)
    ELSE SqrtBits(2 * root, 4 * rem, n - 1)

\* The root r of the mantissa, 14 bits beyond the integer part.
SqrtRound(r, e) == RoundPack(0, r.root, (e \div 2) - 14, r.rem # 0)

\* The square root of m * 2^e for an even e: r0 is the integer root of m.
SqrtRefine(r0, e) == SqrtRound(SqrtBits(r0.root, r0.rem, 14), e)

\* The square root of a normalised a: an odd exponent is made even.
SqrtNormal(a) ==
    SqrtRefine(ISqrt(IF a.e % 2 = 1 THEN 2 * a.m ELSE a.m, 0, 12),
               IF a.e % 2 = 1 THEN a.e - 1 ELSE a.e)

\* libm::sqrtf (correctly rounded).
sqrtf(x) ==
    IF x.k = "nan" THEN F32NaN
    ELSE IF x.k = "zero" THEN x
    ELSE IF x.s = 1 THEN F32NaN
    ELSE IF x.k = "inf" THEN x
    ELSE SqrtNormal(F32Normal(x))

\* x < y, x <= y (false when either is NaN).
F32Lt(x, y) ==
    IF x.k = "nan" \/ y.k = "nan" THEN FALSE
    ELSE IF x.k = "zero" /\ y.k = "zero" THEN FALSE
    ELSE IF x.k = "zero" THEN y.s = 0
    ELSE IF y.k = "zero" THEN x.s = 1
    ELSE IF x.s # y.s THEN x.s = 1
    ELSE
      LET magLt(a, b) ==
            IF a.k = "inf" THEN FALSE
            ELSE IF b.k = "inf" THEN TRUE
            ELSE MagLt(a, b)
      IN  IF x.s = 0 THEN magLt(x, y) ELSE magLt(y, x)

F32Eq(x, y) ==
    IF x.k = "nan" \/ y.k = "nan" THEN FALSE
    ELSE IF x.k = "zero" /\ y.k = "zero" THEN TRUE
    ELSE x = y

F32Le(x, y) == F32Lt(x, y) \/ F32Eq(x, y)

\* The integer part of a finite non-zero |x| as a wide integer (|x| < 2^61).
TruncMag(x) ==
    IF x.e >= 30 THEN [hi |-> x.m * 2^(x.e - 30), lo |-> 0]
    ELSE IF x.e >= 0
    THEN [hi |-> x.m \div 2^(30 - x.e), lo |-> (x.m % 2^(30 - x.e)) * 2^(x.e)]
    ELSE IF x.e > -31 THEN W(x.m \div 2^(-x.e))
    ELSE W(0)

\* `x as u32`: truncates toward zero, saturates, NaN gives 0.
F32AsU32(x) ==
    IF x.k = "nan" \/ x.k = "zero" \/ x.s = 1 THEN W(0)
    ELSE IF x.k = "inf" THEN U32_MAX
    ELSE IF BitLen(x.m) + x.e > 32 THEN U32_MAX
    ELSE TruncMag(x)

\* `x as i64`: truncates toward zero, NaN gives 0 (|x| < 2^61 in this model).
F32AsI64(x) ==
    IF x.k = "nan" \/ x.k = "zero" THEN W(0)
    ELSE IF x.s = 1 THEN WNeg(TruncMag(x))
    ELSE TruncMag(x)

\* f32 literals of the source.
F32_0_0 == F32Zero(0)
F32_0_5 == F32Div(F32FromInt(1), F32FromInt(2))
F32_2_0 == F32FromInt(2)
F32_1e9 == F32FromInt(1000000000)
F32_360 == F32FromInt(360)

(***************************************************************************)
(* motion/profile.rs                                                       *)
(***************************************************************************)
Clockwise == "Clockwise"
CounterClockwise == "CounterClockwise"

Accelerating == "Accelerating"
Cruising == "Cruising"
Decelerating == "Decelerating"
Complete == "Complete"

\* Direction::from_steps
from_steps(steps) == IF ~WIsNeg(steps) THEN Clockwise ELSE CounterClockwise

\* Direction::sign
sign(direction) == IF direction = Clockwise THEN 1 ELSE -1

\* MotionProfile::zero
zero ==
    [total_steps |-> W(0), direction |-> Clockwise,
     accel_steps |-> W(0), cruise_steps |-> W(0), decel_steps |-> W(0),
     initial_interval_ns |-> U32_MAX, cruise_interval_ns |-> U32_MAX,
     accel_rate |-> F32_0_0, decel_rate |-> F32_0_0]

\* The step count of the profile: `total_steps.unsigned_abs() as u32`.
StepCount(total_steps) == AsU32(unsigned_abs(total_steps))

\* The triangle branch once accel_steps is known.
TriangleSplit(steps, accel_steps) ==
    << accel_steps, W(0), saturating_sub(steps, accel_steps) >>

\* The triangle branch: the split in proportion to the rates.
TrianglePhases(steps, acceleration, deceleration) ==
    TriangleSplit(steps,
                  F32AsU32(F32Mul(F32FromWide(steps),
                                  F32Div(acceleration,
                                         F32Add(acceleration, deceleration)))))

\* The trapezoid branch once the ramps are known.
TrapezoidSplit(steps, accel_steps, decel_steps) ==
    << accel_steps,
       saturating_sub(steps, WAdd(accel_steps, decel_steps)),
       decel_steps >>

\* The trapezoid branch: the ramps take their distances, the cruise the rest.
TrapezoidPhases(steps, accel_distance, decel_distance) ==
    TrapezoidSplit(steps, F32AsU32(accel_distance), F32AsU32(decel_distance))

\* 0.5 * rate * t * t, the distance of a ramp that lasts t.
RampDistanceIn(rate, t) == F32Mul(F32Mul(F32Mul(F32_0_5, rate), t), t)

\* The distance of the ramp between rest and max_velocity at the given rate.
RampDistance(max_velocity, rate) == RampDistanceIn(rate, F32Div(max_velocity, rate))

\* The profile record once the three phase lengths are known.
ProfileOf(steps, direction, max_velocity, acceleration, deceleration, phases) ==
    [total_steps |-> steps, direction |-> direction,
     accel_steps |-> phases[1], cruise_steps |-> phases[2],
     decel_steps |-> phases[3],
     initial_interval_ns |->
         F32AsU32(F32Div(F32_1e9, sqrtf(F32Mul(F32_2_0, acceleration)))),
     cruise_interval_ns |-> F32AsU32(F32Div(F32_1e9, max_velocity)),
     accel_rate |-> acceleration, decel_rate |-> deceleration]

\* The profile of a move that is not zero, once the ramp distances are known.
ProfileWith(steps, direction, max_velocity, acceleration, deceleration,
            accel_distance, decel_distance) ==
    ProfileOf(steps, direction, max_velocity, acceleration, deceleration,
              IF F32Le(F32FromWide(steps), F32Add(accel_distance, decel_distance))
              THEN TrianglePhases(steps, acceleration, deceleration)
              ELSE TrapezoidPhases(steps, accel_distance, decel_distance))

\* MotionProfile::asymmetric_trapezoidal
asymmetric_trapezoidal(total_steps, max_velocity, acceleration, deceleration) ==
    IF StepCount(total_steps) = W(0) \/ F32Le(max_velocity, F32_0_0)
       \/ F32Le(acceleration, F32_0_0) \/ F32Le(deceleration, F32_0_0)
    THEN zero
    ELSE ProfileWith(StepCount(total_steps), from_steps(total_steps),
                     max_velocity, acceleration, deceleration,
                     RampDistance(max_velocity, acceleration),
                     RampDistance(max_velocity, deceleration))

\* MotionProfile::symmetric_trapezoidal
symmetric_trapezoidal(total_steps, max_velocity, acceleration) ==
    asymmetric_trapezoidal(total_steps, max_velocity, acceleration, acceleration)

\* MotionProfile::is_zero
is_zero(profile) == profile.total_steps = W(0)

\* A faulty phase_at: the cruise and the deceleration phases are exchanged.
phase_at_swapped(profile, step) ==
    IF WLe(profile.total_steps, step) THEN Complete
    ELSE IF WLt(step, profile.accel_steps) THEN Accelerating
    ELSE IF WLt(step, WAdd(profile.accel_steps, profile.cruise_steps))
    THEN Decelerating
    ELSE Cruising

\* MotionProfile::phase_at
phase_at(profile, step) ==
    IF WLe(profile.total_steps, step) THEN Complete
    ELSE IF WLt(step, profile.accel_steps) THEN Accelerating
    ELSE IF WLt(step, WAdd(profile.accel_steps, profile.cruise_steps)) THEN Cruising
    ELSE Decelerating

\* The interval on a ramp: span is (initial - cruise) * progress.
RampInterval(phase, initial, cruise, span) ==
    F32AsU32(IF phase = Accelerating THEN F32Sub(initial, span)
             ELSE F32Add(cruise, span))

\* The interval on a ramp once the two ends and the progress are floats.
RampAt(phase, initial, cruise, progress) ==
    RampInterval(phase, initial, cruise, F32Mul(F32Sub(initial, cruise), progress))

\* The interval in a phase that is known.
IntervalIn(profile, step, phase) ==
    IF phase = Complete THEN U32_MAX
    ELSE IF phase = Cruising THEN profile.cruise_interval_ns
    ELSE RampAt(phase,
                F32FromWide(profile.initial_interval_ns),
                F32FromWide(profile.cruise_interval_ns),
                IF phase = Accelerating
                THEN F32Div(F32FromWide(step),
                            F32FromWide(WMax(profile.accel_steps, W(1))))
                ELSE F32Div(F32FromWide(WSub(WSub(step, profile.accel_steps),
                                             profile.cruise_steps)),
                            F32FromWide(WMax(profile.decel_steps, W(1)))))

\* MotionProfile::interval_at
interval_at(profile, step) == IntervalIn(profile, step, phase_at(profile, step))

(***************************************************************************)
(* motion/executor.rs                                                      *)
(***************************************************************************)
\* MotionExecutor::new
new(profile) ==
    [profile |-> profile,
     current_step |-> W(0),
     current_interval_ns |->
         IF is_zero(profile) THEN U32_MAX ELSE profile.initial_interval_ns,
     phase |-> IF is_zero(profile) THEN Complete ELSE Accelerating]

\* MotionExecutor::is_complete
is_complete(executor) == executor.phase = Complete

\* MotionExecutor::steps_remaining
steps_remaining(executor) ==
    saturating_sub(executor.profile.total_steps, executor.current_step)

\* A faulty AdvanceTo: the move completes one call late (`>` for `>=`).
AdvanceToLate(executor, current_step) ==
    IF WLt(executor.profile.total_steps, current_step)
    THEN [executor |-> [executor EXCEPT !.current_step = current_step,
                                        !.phase = Complete,
                                        !.current_interval_ns = U32_MAX],
          ret |-> FALSE]
    ELSE [executor |->
              [executor EXCEPT
                  !.current_step = current_step,
                  !.phase = phase_at(executor.profile, current_step),
                  !.current_interval_ns =
                      interval_at(executor.profile, current_step)],
          ret |-> TRUE]

\* The executor that is not yet complete, after current_step was incremented.
AdvanceTo(executor, current_step) ==
    IF WLe(executor.profile.total_steps, current_step)
    THEN [executor |-> [executor EXCEPT !.current_step = current_step,
                                        !.phase = Complete,
                                        !.current_interval_ns = U32_MAX],
          ret |-> FALSE]
    ELSE [executor |->
              [executor EXCEPT
                  !.current_step = current_step,
                  !.phase = phase_at(executor.profile, current_step),
                  !.current_interval_ns =
                      interval_at(executor.profile, current_step)],
          ret |-> TRUE]

\* MotionExecutor::advance: the executor after the call and the value returned.
advance(executor) ==
    IF is_complete(executor) THEN [executor |-> executor, ret |-> FALSE]
    ELSE AdvanceTo(executor, WAdd(executor.current_step, W(1)))

\* A faulty reset: the interval of the step reached is kept.
reset_cursor_only(executor) ==
    [executor EXCEPT
        !.current_step = W(0),
        !.phase = IF is_zero(executor.profile) THEN Complete ELSE Accelerating]

\* MotionExecutor::reset
reset(executor) ==
    [executor EXCEPT
        !.current_step = W(0),
        !.phase = IF is_zero(executor.profile) THEN Complete ELSE Accelerating,
        !.current_interval_ns =
            IF is_zero(executor.profile) THEN U32_MAX
            ELSE executor.profile.initial_interval_ns]

(***************************************************************************)
(* Option<T>: None is the empty sequence, Some(x) the sequence of x alone.  *)
(***************************************************************************)
None == << >>
Some(x) == << x >>

(***************************************************************************)
(* config/units.rs, config/limits.rs, config/mechanical.rs                 *)
(***************************************************************************)
\* Steps::from_degrees
from_degrees(degrees, steps_per_degree) == F32AsI64(F32Mul(degrees, steps_per_degree))

\* Steps::to_degrees
to_degrees(steps, steps_per_degree) == F32Div(F32FromWide(steps), steps_per_degree)

Reject == "Reject"
Clamp == "Clamp"

\* StepLimits::from_soft_limits
from_soft_limits(soft, steps_per_degree) ==
    [min_steps |-> F32AsI64(F32Mul(soft.min, steps_per_degree)),
     max_steps |-> F32AsI64(F32Mul(soft.max, steps_per_degree)),
     policy |-> soft.policy]

\* StepLimits::contains
contains(limits, steps) == WLe(limits.min_steps, steps) /\ WLe(steps, limits.max_steps)

\* A faulty apply: the Reject policy clamps as the Clamp policy does.
apply_clamping(limits, target) ==
    IF contains(limits, target) THEN Some(target)
    ELSE IF WLt(target, limits.min_steps) THEN Some(limits.min_steps)
    ELSE Some(limits.max_steps)

\* StepLimits::apply
apply(limits, target) ==
    IF contains(limits, target) THEN Some(target)
    ELSE IF limits.policy = Reject THEN None
    ELSE IF WLt(target, limits.min_steps) THEN Some(limits.min_steps)
    ELSE Some(limits.max_steps)

\* MotorConfig::total_steps_per_revolution
total_steps_per_revolution(config) ==
    F32AsU32(F32Mul(F32Mul(F32FromInt(config.steps_per_revolution),
                           F32FromInt(config.microsteps)),
                    config.gear_ratio))

\* MotorConfig::steps_per_degree
MotorConfig_steps_per_degree(config) ==
    F32Div(F32FromWide(total_steps_per_revolution(config)), F32_360)

\* The constraints once the velocity in steps per second is known.
ConstraintsWith(config, steps_per_revolution, spd, max_velocity_steps_per_sec) ==
    [steps_per_revolution |-> steps_per_revolution,
     steps_per_degree |-> spd,
     max_velocity_steps_per_sec |-> max_velocity_steps_per_sec,
     max_acceleration_steps_per_sec2 |-> F32Mul(config.max_acceleration, spd),
     min_step_interval_ns |->
         IF F32Lt(F32_0_0, max_velocity_steps_per_sec)
         THEN F32AsU32(F32Div(F32_1e9, max_velocity_steps_per_sec))
         ELSE U32_MAX,
     limits |-> IF config.limits = None THEN None
                ELSE Some(from_soft_limits(config.limits[1], spd)),
     max_velocity |-> config.max_velocity,
     max_acceleration |-> config.max_acceleration]

\* The constraints once the steps per degree are known.
ConstraintsPerDegree(config, steps_per_revolution, spd) ==
    ConstraintsWith(config, steps_per_revolution, spd,
                    F32Mul(config.max_velocity, spd))

\* The constraints once the steps per revolution are known.
ConstraintsPerRevolution(config, steps_per_revolution) ==
    ConstraintsPerDegree(config, steps_per_revolution,
                         F32Div(F32FromWide(steps_per_revolution), F32_360))

\* MechanicalConstraints::from_config
from_config(config) ==
    ConstraintsPerRevolution(
        config,
        F32AsU32(F32Mul(F32Mul(F32FromInt(config.steps_per_revolution),
                               F32FromInt(config.microsteps)),
                        config.gear_ratio)))

(***************************************************************************)
(* motor/position.rs                                                       *)
(***************************************************************************)
\* Position::new
Position_new(steps_per_degree) == [steps |-> W(0), steps_per_degree |-> steps_per_degree]

\* Position::degrees
degrees(position) == to_degrees(position.steps, position.steps_per_degree)

\* Position::move_steps
move_steps(position, delta) == [position EXCEPT !.steps = WAdd(position.steps, W(delta))]

\* Position::set_degrees
set_degrees(position, deg) ==
    [position EXCEPT !.steps = from_degrees(deg, position.steps_per_degree)]

\* Position::set_origin
Position_set_origin(position) == [position EXCEPT !.steps = W(0)]

(***************************************************************************)
(* config/limits.rs: the soft limits in degrees.                           *)
(***************************************************************************)
\* SoftLimits::contains
SoftLimits_contains(soft, position) ==
    F32Le(soft.min, position) /\ F32Le(position, soft.max)

\* A faulty SoftLimits::apply: a target outside the range is clamped to the
\* upper bound, whichever side it lies on.
SoftLimits_apply_upper(soft, target) ==
    IF SoftLimits_contains(soft, target) THEN Some(target)
    ELSE IF soft.policy = Reject THEN None
    ELSE Some(soft.max)

\* SoftLimits::apply
SoftLimits_apply(soft, target) ==
    IF SoftLimits_contains(soft, target) THEN Some(target)
    ELSE IF soft.policy = Reject THEN None
    ELSE IF F32Lt(target, soft.min) THEN Some(soft.min)
    ELSE Some(soft.max)

(***************************************************************************)
(* config/trajectory.rs, config/system.rs, trajectory/registry.rs.  A map  *)
(* (heapless::FnvIndexMap) is the sequence of its entries in the order of   *)
(* their insertion, each a name and a trajectory.                           *)
(***************************************************************************)
F32_100 == F32FromInt(100)

\* TrajectoryConfig::effective_acceleration
effective_acceleration(trajectory, constraints) ==
    IF trajectory.acceleration # None THEN trajectory.acceleration[1]
    ELSE F32Mul(constraints.max_acceleration,
                F32Div(F32FromInt(trajectory.acceleration_percent), F32_100))

\* TrajectoryConfig::effective_deceleration
effective_deceleration(trajectory, constraints) ==
    IF trajectory.deceleration # None THEN trajectory.deceleration[1]
    ELSE IF trajectory.acceleration # None THEN trajectory.acceleration[1]
    ELSE F32Mul(constraints.max_acceleration,
                F32Div(F32FromInt(trajectory.acceleration_percent), F32_100))

\* TrajectoryConfig::effective_velocity
effective_velocity(trajectory, constraints) ==
    F32Mul(constraints.max_velocity,
           F32Div(F32FromInt(trajectory.velocity_percent), F32_100))

\* MechanicalConstraints::velocity_to_steps
velocity_to_steps(constraints, deg_per_sec) ==
    F32Mul(deg_per_sec, constraints.steps_per_degree)

\* MechanicalConstraints::acceleration_to_steps
acceleration_to_steps(constraints, deg_per_sec2) ==
    F32Mul(deg_per_sec2, constraints.steps_per_degree)

\* The capacity of the registry.
MAX_TRAJECTORIES == 32

\* The capacity of SystemConfig::trajectories.
ConfigTrajectories == 64

\* The capacity of a name (heapless::String<32>).
NameCapacity == 32

\* TrajectoryRegistry::new
TrajectoryRegistry_new == << >>

\* The places of a name among the entries of a map: one at most.
Places(entries, name) == { i \in 1 .. Len(entries) : entries[i].name = name }

\* FnvIndexMap::insert: the value of a name that is present is replaced, a
\* new name is added at the end unless the map is full.
insert(entries, name, trajectory) ==
    IF Places(entries, name) # {}
    THEN [entries |->
              [i \in 1 .. Len(entries) |->
                  IF entries[i].name = name
                  THEN [name |-> name, trajectory |-> trajectory]
                  ELSE entries[i]],
          ok |-> TRUE]
    ELSE IF Len(entries) >= MAX_TRAJECTORIES
    THEN [entries |-> entries, ok |-> FALSE]
    ELSE [entries |-> Append(entries, [name |-> name, trajectory |-> trajectory]),
          ok |-> TRUE]

\* TrajectoryRegistry::register
register(registry, name, trajectory) ==
    IF Len(name) > NameCapacity
    THEN [registry |-> registry, result |-> "InvalidName"]
    ELSE [registry |-> insert(registry, name, trajectory).entries,
          result |-> IF insert(registry, name, trajectory).ok THEN "Ok"
                     ELSE "InvalidName"]

\* TrajectoryRegistry::get
get(registry, name) ==
    IF Len(name) > NameCapacity THEN None
    ELSE IF Places(registry, name) = {} THEN None
    ELSE Some(registry[CHOOSE i \in Places(registry, name) : TRUE].trajectory)

\* TrajectoryRegistry::len
len(registry) == Len(registry)

\* TrajectoryRegistry::from_config: the loop has registered the first n
\* trajectories of the configuration; the result of register is dropped.
RECURSIVE RegisterFrom(_, _, _)
RegisterFrom(registry, trajectories, n) ==
    IF n >= Len(trajectories) THEN registry
    ELSE RegisterFrom(register(registry, trajectories[n + 1].name,
                               trajectories[n + 1].trajectory).registry,
                      trajectories, n + 1)

\* TrajectoryRegistry::from_config
TrajectoryRegistry_from_config(config) ==
    RegisterFrom(TrajectoryRegistry_new, config.trajectories, 0)

(***************************************************************************)
(* motor/driver.rs.  A driver operation is an operator from the motor, the  *)
(* pins and the outcome of each pin write it may attempt to the motor and   *)
(* the pins afterwards, the value returned, and the pin writes and delays   *)
(* of the call.  The type-state tag is the field state.                     *)
(***************************************************************************)
Idle == "Idle"
Moving == "Moving"
\* The tags that no operation of the driver takes or returns.
Homing == "Homing"
Fault == "Fault"
\* The motor value was consumed by a call that did not hand it back.
Dropped == "Dropped"

\* StepperMotor::new
StepperMotor_new(constraints, name, invert_direction, backlash_steps) ==
    [state |-> Idle,
     position |-> Position_new(constraints.steps_per_degree),
     current_direction |-> None,
     constraints |-> constraints,
     name |-> name,
     invert_direction |-> invert_direction,
     backlash_steps |-> backlash_steps,
     executor |-> None]

\* StepperMotorBuilder::from_motor_config followed by build
build(config) ==
    StepperMotor_new(
        from_config(config), config.name, config.invert_direction,
        IF config.backlash_compensation = None THEN W(0)
        ELSE F32AsI64(F32Mul(config.backlash_compensation[1],
                             MotorConfig_steps_per_degree(config))))

\* The pins before any write.
PinsInit == [step |-> "unset", dir |-> "unset"]

\* No pin write and no delay.
NoEffects == [dir_writes |-> 0, step_writes |-> 0, delays |-> 0]

\* A faulty set_direction: the DIR pin is written whatever the cached
\* direction.
set_direction_always(self, pins, direction, dir_ok) ==
    IF ~dir_ok
    THEN [ok |-> FALSE, motor |-> self, pins |-> pins, dir_writes |-> 1]
    ELSE [ok |-> TRUE,
          motor |-> [self EXCEPT !.current_direction = Some(direction)],
          pins |-> [pins EXCEPT
                       !.dir = IF (IF direction = Clockwise
                                   THEN ~self.invert_direction
                                   ELSE self.invert_direction)
                               THEN "high" ELSE "low"],
          dir_writes |-> 1]

\* A faulty set_direction: the direction is cached before the DIR pin is
\* written, and stays cached when the write fails.
set_direction_caching(self, pins, direction, dir_ok) ==
    IF self.current_direction = Some(direction)
    THEN [ok |-> TRUE, motor |-> self, pins |-> pins, dir_writes |-> 0]
    ELSE IF ~dir_ok
    THEN [ok |-> FALSE,
          motor |-> [self EXCEPT !.current_direction = Some(direction)],
          pins |-> pins, dir_writes |-> 1]
    ELSE [ok |-> TRUE,
          motor |-> [self EXCEPT !.current_direction = Some(direction)],
          pins |-> [pins EXCEPT
                       !.dir = IF (IF direction = Clockwise
                                   THEN ~self.invert_direction
                                   ELSE self.invert_direction)
                               THEN "high" ELSE "low"],
          dir_writes |-> 1]

\* A faulty set_direction: the DIR pin is driven as if the direction were
\* never inverted.
set_direction_uninverted(self, pins, direction, dir_ok) ==
    IF self.current_direction = Some(direction)
    THEN [ok |-> TRUE, motor |-> self, pins |-> pins, dir_writes |-> 0]
    ELSE IF ~dir_ok
    THEN [ok |-> FALSE, motor |-> self, pins |-> pins, dir_writes |-> 1]
    ELSE [ok |-> TRUE,
          motor |-> [self EXCEPT !.current_direction = Some(direction)],
          pins |-> [pins EXCEPT
                       !.dir = IF direction = Clockwise THEN "high" ELSE "low"],
          dir_writes |-> 1]

\* StepperMotor::set_direction; dir_ok is the outcome of the DIR write.
set_direction(self, pins, direction, dir_ok) ==
    IF self.current_direction = Some(direction)
    THEN [ok |-> TRUE, motor |-> self, pins |-> pins, dir_writes |-> 0]
    ELSE IF ~dir_ok
    THEN [ok |-> FALSE, motor |-> self, pins |-> pins, dir_writes |-> 1]
    ELSE [ok |-> TRUE,
          motor |-> [self EXCEPT !.current_direction = Some(direction)],
          pins |-> [pins EXCEPT
                       !.dir = IF (IF direction = Clockwise
                                   THEN ~self.invert_direction
                                   ELSE self.invert_direction)
                               THEN "high" ELSE "low"],
          dir_writes |-> 1]

\* A faulty limit_check: only a move in the positive direction is checked.
limit_check_forward(self, target_steps, delta_steps) ==
    IF self.constraints.limits = None THEN None
    ELSE IF WLt(W(0), delta_steps)
            /\ apply(self.constraints.limits[1], target_steps) = None
    THEN Some(self.constraints.limits[1].max_steps)
    ELSE None

\* The limit that a rejected target exceeds, as move_to reports it.
limit_check(self, target_steps, delta_steps) ==
    IF self.constraints.limits = None THEN None
    ELSE IF apply(self.constraints.limits[1], target_steps) = None
    THEN Some(IF WLt(W(0), delta_steps) THEN self.constraints.limits[1].max_steps
              ELSE self.constraints.limits[1].min_steps)
    ELSE None

\* The profile move_to builds for a move of delta_steps.
move_profile(self, delta_steps) ==
    symmetric_trapezoidal(delta_steps,
                          self.constraints.max_velocity_steps_per_sec,
                          self.constraints.max_acceleration_steps_per_sec2)

\* A faulty move_to: a DIR write that fails leaves the motor in Fault.
MoveDirectedFaulting(target_steps, profile, sd) ==
    IF ~sd.ok
    THEN [motor |-> [sd.motor EXCEPT !.state = Fault], pins |-> sd.pins,
          result |-> "PinError",
          detail |-> None, direction |-> Some(profile.direction),
          target_steps |-> target_steps,
          effects |-> [NoEffects EXCEPT !.dir_writes = sd.dir_writes]]
    ELSE [motor |-> [sd.motor EXCEPT !.executor = Some(new(profile)),
                                      !.state = Moving],
          pins |-> sd.pins, result |-> "Ok", detail |-> None,
          direction |-> Some(profile.direction),
          target_steps |-> target_steps,
          effects |-> [NoEffects EXCEPT !.dir_writes = sd.dir_writes]]

\* move_to after set_direction has returned sd.
MoveDirected(target_steps, profile, sd) ==
    IF ~sd.ok
    THEN [motor |-> sd.motor, pins |-> sd.pins, result |-> "PinError",
          detail |-> None, direction |-> Some(profile.direction),
          target_steps |-> target_steps,
          effects |-> [NoEffects EXCEPT !.dir_writes = sd.dir_writes]]
    ELSE [motor |-> [sd.motor EXCEPT !.executor = Some(new(profile)),
                                      !.state = Moving],
          pins |-> sd.pins, result |-> "Ok", detail |-> None,
          direction |-> Some(profile.direction),
          target_steps |-> target_steps,
          effects |-> [NoEffects EXCEPT !.dir_writes = sd.dir_writes]]

\* move_to once the profile is built.
MoveWithProfile(self, pins, dir_ok, target_steps, profile) ==
    MoveDirected(target_steps, profile,
                 set_direction(self, pins, profile.direction, dir_ok))

\* A faulty move_to: the limits are checked before the distance.
MoveByStepsLimitsFirst(self, pins, dir_ok, target_steps, delta_steps) ==
    IF limit_check(self, target_steps, delta_steps) # None
    THEN [motor |-> self, pins |-> pins, result |-> "LimitExceeded",
          detail |-> [position |-> target_steps,
                      limit |-> limit_check(self, target_steps, delta_steps)[1]],
          direction |-> None,
          target_steps |-> target_steps, effects |-> NoEffects]
    ELSE IF delta_steps = W(0)
    THEN [motor |-> self, pins |-> pins, result |-> "MoveTooShort",
          detail |-> [steps |-> W(0), minimum |-> W(1)], direction |-> None,
          target_steps |-> target_steps, effects |-> NoEffects]
    ELSE MoveWithProfile(self, pins, dir_ok, target_steps,
                         move_profile(self, delta_steps))

\* move_to after a set_direction made ahead of the checks returned sd.
MoveDirectedEarly(self, pins, target_steps, delta_steps, sd) ==
    IF ~sd.ok
    THEN [motor |-> sd.motor, pins |-> sd.pins, result |-> "PinError",
          detail |-> None, direction |-> Some(from_steps(delta_steps)),
          target_steps |-> target_steps,
          effects |-> [NoEffects EXCEPT !.dir_writes = sd.dir_writes]]
    ELSE IF delta_steps = W(0)
    THEN [motor |-> self, pins |-> sd.pins, result |-> "MoveTooShort",
          detail |-> [steps |-> W(0), minimum |-> W(1)], direction |-> None,
          target_steps |-> target_steps,
          effects |-> [NoEffects EXCEPT !.dir_writes = sd.dir_writes]]
    ELSE IF limit_check(self, target_steps, delta_steps) # None
    THEN [motor |-> self, pins |-> sd.pins, result |-> "LimitExceeded",
          detail |-> [position |-> target_steps,
                      limit |-> limit_check(self, target_steps, delta_steps)[1]],
          direction |-> None,
          target_steps |-> target_steps,
          effects |-> [NoEffects EXCEPT !.dir_writes = sd.dir_writes]]
    ELSE [motor |-> [sd.motor EXCEPT
                        !.executor = Some(new(move_profile(self, delta_steps))),
                        !.state = Moving],
          pins |-> sd.pins, result |-> "Ok", detail |-> None,
          direction |-> Some(from_steps(delta_steps)),
          target_steps |-> target_steps,
          effects |-> [NoEffects EXCEPT !.dir_writes = sd.dir_writes]]

\* A faulty move_to: the DIR pin is written before the checks.
MoveByStepsDirectionFirst(self, pins, dir_ok, target_steps, delta_steps) ==
    MoveDirectedEarly(self, pins, target_steps, delta_steps,
                      set_direction(self, pins, from_steps(delta_steps), dir_ok))

\* move_to once the target and the distance are known in steps.
MoveBySteps(self, pins, dir_ok, target_steps, delta_steps) ==
    IF delta_steps = W(0)
    THEN [motor |-> self, pins |-> pins, result |-> "MoveTooShort",
          detail |-> [steps |-> W(0), minimum |-> W(1)], direction |-> None,
          target_steps |-> target_steps, effects |-> NoEffects]
    ELSE IF limit_check(self, target_steps, delta_steps) # None
    THEN [motor |-> self, pins |-> pins, result |-> "LimitExceeded",
          detail |-> [position |-> target_steps,
                      limit |-> limit_check(self, target_steps, delta_steps)[1]],
          direction |-> None,
          target_steps |-> target_steps, effects |-> NoEffects]
    ELSE MoveWithProfile(self, pins, dir_ok, target_steps,
                         move_profile(self, delta_steps))

\* move_to once the target is known in steps.
MoveToSteps(self, pins, dir_ok, target_steps) ==
    MoveBySteps(self, pins, dir_ok, target_steps,
                WSub(target_steps, self.position.steps))

\* StepperMotor::move_to.  direction is the direction handed to set_direction,
\* if the call came that far.
move_to(self, pins, target, dir_ok) ==
    MoveToSteps(self, pins, dir_ok,
                from_degrees(target, self.constraints.steps_per_degree))

\* StepperMotor::move_by
move_by(self, pins, delta, dir_ok) ==
    move_to(self, pins, F32Add(degrees(self.position), delta), dir_ok)

\* StepperMotor::set_origin
set_origin(self) == [self EXCEPT !.position = Position_set_origin(self.position)]

\* A faulty set_position: the cached direction is forgotten.
set_position_forgetting(self, deg) ==
    [self EXCEPT !.position = set_degrees(self.position, deg),
                 !.current_direction = None]

\* StepperMotor::set_position
set_position(self, deg) == [self EXCEPT !.position = set_degrees(self.position, deg)]

\* What step() does, in the order of its code: a write of the STEP pin and
\* its outcome, a delay, the change of the position, the call of advance().
StepHigh(ok) == [ev |-> "set_high", pin |-> "STEP", ok |-> ok]
StepLow(ok) == [ev |-> "set_low", pin |-> "STEP", ok |-> ok]
Delay(ns) == [ev |-> "delay", ns |-> ns]
MoveSteps(delta) == [ev |-> "move_steps", delta |-> delta]
AdvanceExecutor == [ev |-> "advance"]

\* The pulse width: delay_us(2), in nanoseconds.
PulseWidth == W(2 * 1000)

\* The wait that follows a pulse: if has_more { delay_ns > 0 => delay_ns }.
InterStepWait(interval_ns, has_more) ==
    IF has_more /\ WLt(W(0), saturating_sub(interval_ns, W(2000)))
    THEN << Delay(saturating_sub(interval_ns, W(2000))) >>
    ELSE << >>

\* step() from the first STEP write to its return, when no write fails.
PulseTrace(delta, interval_ns, has_more) ==
    << StepHigh(TRUE), Delay(PulseWidth), StepLow(TRUE), MoveSteps(delta),
       AdvanceExecutor >> \o InterStepWait(interval_ns, has_more)

\* A faulty step: the position counts up whatever the direction.
StepAdvancedForward(self, pins, direction, interval_ns, adv) ==
    [motor |-> [self EXCEPT
                   !.position = move_steps(self.position, 1),
                   !.executor = Some(adv.executor)],
     pins |-> [pins EXCEPT !.step = "low"],
     result |-> "Ok", ret |-> ~adv.ret,
     effects |-> [NoEffects EXCEPT
                     !.step_writes = 2,
                     !.delays = IF adv.ret
                                   /\ WLt(W(0), saturating_sub(interval_ns, W(2000)))
                                THEN 2 ELSE 1],
     pulses |-> 1,
     trace |-> PulseTrace(1, interval_ns, adv.ret)]

\* A faulty step: the wait is the interval of the step to come.
StepAdvancedNextInterval(self, pins, direction, interval_ns, adv) ==
    [motor |-> [self EXCEPT
                   !.position = move_steps(self.position, sign(direction)),
                   !.executor = Some(adv.executor)],
     pins |-> [pins EXCEPT !.step = "low"],
     result |-> "Ok", ret |-> ~adv.ret,
     effects |-> [NoEffects EXCEPT
                     !.step_writes = 2,
                     !.delays = IF adv.ret
                                   /\ WLt(W(0), saturating_sub(
                                          adv.executor.current_interval_ns,
                                          W(2000)))
                                THEN 2 ELSE 1],
     pulses |-> 1,
     trace |-> PulseTrace(sign(direction), adv.executor.current_interval_ns,
                          adv.ret)]

\* step() after both STEP writes succeeded and the executor has advanced.
StepAdvanced(self, pins, direction, interval_ns, adv) ==
    [motor |-> [self EXCEPT
                   !.position = move_steps(self.position, sign(direction)),
                   !.executor = Some(adv.executor)],
     pins |-> [pins EXCEPT !.step = "low"],
     result |-> "Ok", ret |-> ~adv.ret,
     effects |-> [NoEffects EXCEPT
                     !.step_writes = 2,
                     !.delays = IF adv.ret
                                   /\ WLt(W(0), saturating_sub(interval_ns, W(2000)))
                                THEN 2 ELSE 1],
     pulses |-> 1,
     trace |-> PulseTrace(sign(direction), interval_ns, adv.ret)]

\* step() after both STEP writes succeeded.
StepPulsed(self, pins, executor) ==
    StepAdvanced(self, pins, executor.profile.direction,
                 executor.current_interval_ns, advance(executor))

\* A faulty step: a pulse is issued whether or not the move is complete.
step_unchecked(self, pins, high_ok, low_ok) ==
    IF self.executor = None
    THEN [motor |-> self, pins |-> pins, result |-> "NotInitialized", ret |-> FALSE,
          effects |-> NoEffects, pulses |-> 0, trace |-> << >>]
    ELSE IF ~high_ok
    THEN [motor |-> self, pins |-> pins, result |-> "PinError", ret |-> FALSE,
          effects |-> [NoEffects EXCEPT !.step_writes = 1], pulses |-> 0,
          trace |-> << StepHigh(FALSE) >>]
    ELSE IF ~low_ok
    THEN [motor |-> self, pins |-> [pins EXCEPT !.step = "high"],
          result |-> "PinError", ret |-> FALSE,
          effects |-> [NoEffects EXCEPT !.step_writes = 2, !.delays = 1],
          pulses |-> 0,
          trace |-> << StepHigh(TRUE), Delay(PulseWidth), StepLow(FALSE) >>]
    ELSE StepPulsed(self, pins, self.executor[1])

\* A faulty step: the position is changed while the STEP pin is high, before
\* the second STEP write.
step_moving_early(self, pins, high_ok, low_ok) ==
    IF self.executor = None
    THEN [motor |-> self, pins |-> pins, result |-> "NotInitialized", ret |-> FALSE,
          effects |-> NoEffects, pulses |-> 0, trace |-> << >>]
    ELSE IF is_complete(self.executor[1])
    THEN [motor |-> self, pins |-> pins, result |-> "Ok", ret |-> TRUE,
          effects |-> NoEffects, pulses |-> 0, trace |-> << >>]
    ELSE IF ~high_ok
    THEN [motor |-> self, pins |-> pins, result |-> "PinError", ret |-> FALSE,
          effects |-> [NoEffects EXCEPT !.step_writes = 1], pulses |-> 0,
          trace |-> << StepHigh(FALSE) >>]
    ELSE IF ~low_ok
    THEN [motor |-> [self EXCEPT
                        !.position = move_steps(
                            self.position,
                            sign(self.executor[1].profile.direction))],
          pins |-> [pins EXCEPT !.step = "high"],
          result |-> "PinError", ret |-> FALSE,
          effects |-> [NoEffects EXCEPT !.step_writes = 2, !.delays = 1],
          pulses |-> 0,
          trace |-> << StepHigh(TRUE), Delay(PulseWidth),
                       MoveSteps(sign(self.executor[1].profile.direction)),
                       StepLow(FALSE) >>]
    ELSE StepPulsed(self, pins, self.executor[1])

\* StepperMotor::step; high_ok and low_ok are the outcomes of the two STEP
\* writes.  pulses counts the pulses completed.
step(self, pins, high_ok, low_ok) ==
    IF self.executor = None
    THEN [motor |-> self, pins |-> pins, result |-> "NotInitialized", ret |-> FALSE,
          effects |-> NoEffects, pulses |-> 0, trace |-> << >>]
    ELSE IF is_complete(self.executor[1])
    THEN [motor |-> self, pins |-> pins, result |-> "Ok", ret |-> TRUE,
          effects |-> NoEffects, pulses |-> 0, trace |-> << >>]
    ELSE IF ~high_ok
    THEN [motor |-> self, pins |-> pins, result |-> "PinError", ret |-> FALSE,
          effects |-> [NoEffects EXCEPT !.step_writes = 1], pulses |-> 0,
          trace |-> << StepHigh(FALSE) >>]
    ELSE IF ~low_ok
    THEN [motor |-> self, pins |-> [pins EXCEPT !.step = "high"],
          result |-> "PinError", ret |-> FALSE,
          effects |-> [NoEffects EXCEPT !.step_writes = 2, !.delays = 1],
          pulses |-> 0,
          trace |-> << StepHigh(TRUE), Delay(PulseWidth), StepLow(FALSE) >>]
    ELSE StepPulsed(self, pins, self.executor[1])

\* A faulty is_complete: only the absence of an executor counts as complete.
motor_is_complete_without_executor(self) == self.executor = None

\* StepperMotor::is_complete (Moving)
motor_is_complete(self) ==
    IF self.executor = None THEN TRUE ELSE is_complete(self.executor[1])

\* A faulty finish: the motor is retagged Idle with its executor.
finish_keeping_executor(self) == [self EXCEPT !.state = Idle]

\* StepperMotor::finish
finish(self) == [self EXCEPT !.executor = None, !.state = Idle]

AddEffects(a, b) ==
    [dir_writes |-> a.dir_writes + b.dir_writes,
     step_writes |-> a.step_writes + b.step_writes,
     delays |-> a.delays + b.delays]

\* The pin writes, delays and pulses of a run so far, and those of one more
\* call s of step().
Accumulate(acc, s) ==
    [effects |-> AddEffects(acc.effects, s.effects),
     pulses |-> acc.pulses + s.pulses]

\* StepperMotor::run_to_completion.  The loop has made n calls of step() so
\* far; fail names the call of step() (counted from 0) and the STEP write
\* ("high" or "low") that fails, if one does.  An error of step() returns
\* without the motor.
RECURSIVE run_loop(_, _, _, _, _)

\* The loop after a call of step() returned s.
RunStepped(s, fail, n, acc) ==
    IF s.result # "Ok"
    THEN [motor |-> [s.motor EXCEPT !.state = Dropped], pins |-> s.pins,
          result |-> s.result, effects |-> acc.effects,
          pulses |-> acc.pulses]
    ELSE run_loop(s.motor, s.pins, fail, n + 1, acc)

\* The loop after a call of step() returned s, with s added to the account.
RunAccumulated(s, fail, n, acc) == RunStepped(s, fail, n, Accumulate(acc, s))

run_loop(self, pins, fail, n, acc) ==
    IF motor_is_complete(self)
    THEN [motor |-> finish(self), pins |-> pins, result |-> "Ok",
          effects |-> acc.effects, pulses |-> acc.pulses]
    ELSE RunAccumulated(step(self, pins,
                             ~(fail = Some([call |-> n, write |-> "high"])),
                             ~(fail = Some([call |-> n, write |-> "low"]))),
                        fail, n, acc)

run_to_completion(self, pins, fail) ==
    run_loop(self, pins, fail, 0, [effects |-> NoEffects, pulses |-> 0])

\* A faulty move_to_blocking: an error of run_to_completion is returned with
\* the motor back in Idle.
BlockingRanReturning(mv, run) ==
    [motor |-> IF run.result = "Ok" THEN run.motor
               ELSE [run.motor EXCEPT !.executor = None, !.state = Idle],
     pins |-> run.pins,
     result |-> run.result,
     detail |-> None, direction |-> mv.direction,
     target_steps |-> mv.target_steps,
     effects |-> AddEffects(mv.effects, run.effects),
     pulses |-> run.pulses]

\* move_to_blocking after move_to succeeded and run_to_completion returned.
BlockingRan(mv, run) ==
    [motor |-> run.motor, pins |-> run.pins,
     result |-> IF run.result = "Ok" THEN "Ok" ELSE "Panic",
     detail |-> None, direction |-> mv.direction,
     target_steps |-> mv.target_steps,
     effects |-> AddEffects(mv.effects, run.effects),
     pulses |-> run.pulses]

\* move_to_blocking after move_to returned mv: an error of run_to_completion
\* panics.
BlockingMoved(mv, fail) ==
    IF mv.result # "Ok"
    THEN [motor |-> mv.motor, pins |-> mv.pins, result |-> mv.result,
          detail |-> mv.detail, direction |-> mv.direction,
          target_steps |-> mv.target_steps,
          effects |-> mv.effects, pulses |-> 0]
    ELSE BlockingRan(mv, run_to_completion(mv.motor, mv.pins, fail))

\* StepperMotor::move_to_blocking
move_to_blocking(self, pins, target, dir_ok, fail) ==
    BlockingMoved(move_to(self, pins, target, dir_ok), fail)

\* execute refuses the name: the motor is handed back as it came.
Refused(self, pins, message) ==
    [motor |-> self, pins |-> pins, result |-> "InvalidName",
     detail |-> [message |-> message], direction |-> None,
     target_steps |-> None, effects |-> NoEffects, pulses |-> 0]

\* A faulty execute: the trajectory of another motor is run as well.
ExecuteFoundAnyMotor(self, pins, trajectory, dir_ok, fail) ==
    move_to_blocking(self, pins, trajectory.target_degrees, dir_ok, fail)

\* execute once the trajectory is found.
ExecuteFound(self, pins, trajectory, dir_ok, fail) ==
    IF trajectory.motor # self.name
    THEN Refused(self, pins, "is for motor")
    ELSE move_to_blocking(self, pins, trajectory.target_degrees, dir_ok, fail)

\* StepperMotor::execute
execute(self, pins, trajectory_name, registry, dir_ok, fail) ==
    IF get(registry, trajectory_name) = None
    THEN Refused(self, pins, "not found")
    ELSE ExecuteFound(self, pins, get(registry, trajectory_name)[1], dir_ok, fail)

(***************************************************************************)
(* config/system.rs, config/validation.rs, motor/system.rs.  The maps of   *)
(* a system configuration are sequences of entries in the order of the     *)
(* file: motors of [key, config], trajectories of [name, trajectory],      *)
(* sequences of [name, sequence].                                          *)
(***************************************************************************)
\* SystemConfig::motor: the motor configuration under a key of the map.
SystemConfig_motor(config, name) ==
    IF \E i \in 1 .. Len(config.motors) : config.motors[i].key = name
    THEN Some(config.motors[CHOOSE i \in 1 .. Len(config.motors) :
                               config.motors[i].key = name].config)
    ELSE None

\* SoftLimits::is_valid
is_valid(soft) == F32Lt(soft.min, soft.max)

\* validate_motor: Ok or the error returned.
validate_motor(config) ==
    IF F32Le(config.gear_ratio, F32_0_0) THEN "InvalidGearRatio"
    ELSE IF F32Le(config.max_velocity, F32_0_0) THEN "InvalidMaxVelocity"
    ELSE IF F32Le(config.max_acceleration, F32_0_0)
    THEN "InvalidMaxAcceleration"
    ELSE IF (IF config.limits = None THEN FALSE
             ELSE ~is_valid(config.limits[1]))
    THEN "InvalidSoftLimits"
    ELSE "Ok"

\* validate_trajectory once the motor it names is found.
ValidateFor(traj, motor_config) ==
    IF traj.velocity_percent = 0 \/ traj.velocity_percent > 200
    THEN "InvalidVelocityPercent"
    ELSE IF traj.acceleration_percent = 0 \/ traj.acceleration_percent > 200
    THEN "InvalidAccelerationPercent"
    ELSE IF (IF motor_config.limits = None THEN FALSE
             ELSE /\ ~SoftLimits_contains(motor_config.limits[1],
                                          traj.target_degrees)
                  /\ motor_config.limits[1].policy = Reject)
    THEN "TargetExceedsLimits"
    ELSE "Ok"

\* validate_trajectory: Ok or the error returned.
validate_trajectory(traj, config) ==
    IF SystemConfig_motor(config, traj.motor) = None THEN "MotorNotFound"
    ELSE ValidateFor(traj, SystemConfig_motor(config, traj.motor)[1])

\* validate_sequence: Ok or the error returned.
validate_sequence(seq, config) ==
    IF SystemConfig_motor(config, seq.motor) = None THEN "MotorNotFound"
    ELSE IF seq.waypoints = << >> THEN "EmptyWaypoints"
    ELSE IF seq.velocity_percent = 0 \/ seq.velocity_percent > 200
    THEN "InvalidVelocityPercent"
    ELSE "Ok"

\* The `?` of a loop: the first result that is an error, or Ok.
FirstError(results) ==
    IF \A i \in 1 .. Len(results) : results[i] = "Ok" THEN "Ok"
    ELSE results[CHOOSE i \in 1 .. Len(results) :
                    /\ results[i] # "Ok"
                    /\ \A j \in 1 .. i - 1 : results[j] = "Ok"]

\* validate_config: the motors, then the trajectories, then the sequences.
validate_config(config) ==
    FirstError(
        [i \in 1 .. Len(config.motors) |->
            validate_motor(config.motors[i].config)]
        \o [i \in 1 .. Len(config.trajectories) |->
                validate_trajectory(config.trajectories[i].trajectory, config)]
        \o [i \in 1 .. Len(config.sequences) |->
                validate_sequence(config.sequences[i].sequence, config)])

\* MotorSystem::from_config
MotorSystem_from_config(config) ==
    [config |-> config,
     registry |-> TrajectoryRegistry_from_config(config),
     registered_motors |-> << >>]

\* MotorSystem::build_motor: the motor of the entry under a key, with pins.
build_motor(system, name) ==
    IF SystemConfig_motor(system.config, name) = None
    THEN [result |-> "MotorNotFound", motor |-> None]
    ELSE [result |-> "Ok",
          motor |-> Some(build(SystemConfig_motor(system.config, name)[1]))]

\* StepperMotorBuilder::from_config followed by build, with pins.
StepperMotorBuilder_from_config(config, motor_name) ==
    IF SystemConfig_motor(config, motor_name) = None
    THEN [result |-> "MotorNotFound", motor |-> None]
    ELSE [result |-> "Ok",
          motor |-> Some(build(SystemConfig_motor(config, motor_name)[1]))]

(***************************************************************************)
(* Bounds of the model.                                                    *)
(***************************************************************************)
\* Targets, relative moves and set positions are whole degrees in
\* -MaxDeg .. MaxDeg, and one target of 2^32 degrees.
MaxDeg == 2
\* The longest move whose pulses the model follows: a longer move can only
\* be abandoned.
MaxRun == 4
\* run_to_completion is followed with a failing pin write in one of its
\* first FailCalls calls of step(), or with none (step() on its own can fail
\* at every call).
FailCalls == 2
\* Step counts of the profile calculator's inputs: -MaxSteps .. MaxSteps, and
\* counts around 2^24 and 2^32.
MaxSteps == 6
\* advance() calls made on an executor past its completion.
ExtraCalls == 2

(***************************************************************************)
(* The inputs.                                                             *)
(***************************************************************************)
\* 2^n as f32.
F32Pow2(n) == RoundPack(0, 1, n, FALSE)

Degs == { F32FromInt(n) : n \in -MaxDeg .. MaxDeg }

BigDeg == F32Pow2(32)

\* The soft limits (config/limits.rs) of the configurations.
SoftLimitsSet ==
    { None,
      Some([min |-> F32FromInt(-1), max |-> F32FromInt(1), policy |-> Reject]),
      Some([min |-> F32FromInt(-1), max |-> F32FromInt(1), policy |-> Clamp]),
      Some([min |-> F32FromInt(1), max |-> F32FromInt(2), policy |-> Reject]) }

\* One step per degree, two degrees per second, one degree per second squared.
BaseConfig ==
    [name |-> "x", steps_per_revolution |-> 360, microsteps |-> 1,
     gear_ratio |-> F32FromInt(1),
     max_velocity |-> F32FromInt(2), max_acceleration |-> F32FromInt(1),
     invert_direction |-> FALSE, limits |-> None, backlash_compensation |-> None]

\* Motor configurations (config/motor.rs).
Configs ==
    { [BaseConfig EXCEPT !.limits = lim] : lim \in SoftLimitsSet }
    \cup { [BaseConfig EXCEPT !.steps_per_revolution = 200],
           [BaseConfig EXCEPT !.max_velocity = F32FromInt(1),
                              !.max_acceleration = F32FromInt(2)],
           [BaseConfig EXCEPT !.max_velocity = F32FromInt(0)],
           [BaseConfig EXCEPT !.max_velocity = F32Pow2(25)],
           [BaseConfig EXCEPT !.max_acceleration = F32FromInt(-1)],
           [BaseConfig EXCEPT !.invert_direction = TRUE],
           [BaseConfig EXCEPT !.backlash_compensation = Some(F32FromInt(1))] }

\* A trajectory (config/trajectory.rs) with the default percentages and no
\* absolute rates.
Trajectory(motor_name, target) ==
    [motor |-> motor_name, target_degrees |-> F32FromInt(target),
     velocity_percent |-> 100, acceleration_percent |-> 100,
     acceleration |-> None, deceleration |-> None, dwell_ms |-> None]

\* The system configuration (config/system.rs): two trajectories of the
\* motor, one at half its velocity with rates of its own, and a trajectory
\* of another motor.
System ==
    [trajectories |->
        << [name |-> "home", trajectory |-> Trajectory("x", 0)],
           [name |-> "out",
            trajectory |-> [Trajectory("x", MaxDeg) EXCEPT
                               !.velocity_percent = 50,
                               !.acceleration = Some(F32FromInt(2)),
                               !.deceleration = Some(F32FromInt(1))]],
           [name |-> "other", trajectory |-> Trajectory("y", 1)] >>]

\* The registry that execute looks the names up in.
Registry == TrajectoryRegistry_from_config(System)

\* The names execute is called with: the registered ones and one that is not.
ExecuteNames == { "home", "out", "other", "absent" }

\* Inputs of the profile calculator.
StepInputs ==
    { W(n) : n \in -MaxSteps .. MaxSteps }
    \cup { [hi |-> 4, lo |-> n] : n \in 0 .. 2 }
    \cup { [hi |-> -5, lo |-> WBase - 1], W(2^24 + 3) }

RateInputs == { F32FromInt(n) : n \in 1 .. 3 } \cup { F32Pow2(25), F32FromInt(0) }

(***************************************************************************)
(* The state.                                                              *)
(***************************************************************************)
VARIABLES
    motor,        \* the StepperMotor value
    pins,         \* the levels last written to the STEP and DIR pins
    call,         \* the last driver call: its name, result and effects
    move,         \* the move begun by the last successful move_to
    repositioned, \* set_origin or set_position has been called
    directed,     \* Option: the direction of the last move_to that succeeded
    input,        \* the inputs of the profile calculator, of the limits
                  \* or of the registry, when they are checked on their own
    profile,      \* Option: the profile computed from input
    executor,     \* Option: the executor under test
    test          \* the advance() calls made on executor; the calls made
                  \* on the limits or on the registry

vars ==
    << motor, pins, call, move, repositioned, directed,
       input, profile, executor, test >>

driverVars == << motor, pins, call, move, repositioned, directed >>
profileVars == << input, profile, executor, test >>

\* No move is under way.
NoMove == [start |-> W(0), target_steps |-> W(0), pulses |-> 0, by |-> "none"]

\* No call is on record.
NoCall == [op |-> "none"]

(***************************************************************************)
(* The driver.  call records the last call of the driver (its result, its   *)
(* pin writes and delays, and the motor before it) and move the move under  *)
(* way (where it started, its target and the pulses issued so far); the     *)
(* caller acknowledges the result of a call before it makes the next one.   *)
(***************************************************************************)
Init ==
    /\ \E config \in Configs : motor = build(config)
    /\ pins = PinsInit
    /\ call = [op |-> "build", result |-> "Ok"]
    /\ move = NoMove
    /\ repositioned = FALSE
    /\ directed = None
    /\ input = None /\ profile = None /\ executor = None /\ test = None

\* The caller has seen the result of the last call.  The record of a move
\* lasts as long as the motor is Moving.
Acknowledge ==
    /\ motor # None
    /\ call # NoCall
    /\ call' = NoCall
    /\ move' = IF motor.state = Moving THEN move ELSE NoMove
    /\ UNCHANGED << motor, pins, repositioned, directed, profileVars >>

\* What a call of move_to, move_by or move_to_blocking leaves behind: r is
\* what the call returned.
AfterMove(op, r) ==
    /\ motor' = r.motor
    /\ pins' = r.pins
    /\ call' = [op |-> op, result |-> r.result, detail |-> r.detail,
                target_steps |-> r.target_steps, effects |-> r.effects,
                direction |-> r.direction, directed |-> directed,
                before |-> motor]
    /\ move' = IF r.result \in {"Ok", "Panic"}
               THEN [start |-> motor.position.steps,
                     target_steps |-> r.target_steps,
                     pulses |-> IF op = "move_to_blocking" THEN r.pulses ELSE 0,
                     by |-> op]
               ELSE NoMove
    /\ directed' = IF r.result \in {"Ok", "Panic"} THEN r.direction ELSE directed
    /\ UNCHANGED << repositioned, profileVars >>

MoveTo ==
    /\ call = NoCall
    /\ motor.state = Idle
    /\ \E target \in Degs \cup {BigDeg}, dir_ok \in BOOLEAN :
          AfterMove("move_to", move_to(motor, pins, target, dir_ok))

\* Relative moves keep the position within -MaxDeg .. MaxDeg degrees.
InRange(deg) ==
    F32Le(F32FromInt(-MaxDeg), deg) /\ F32Le(deg, F32FromInt(MaxDeg))

MoveBy ==
    /\ call = NoCall
    /\ motor.state = Idle
    /\ \E delta \in Degs, dir_ok \in BOOLEAN :
          /\ InRange(F32Add(degrees(motor.position), delta))
          /\ AfterMove("move_by", move_by(motor, pins, delta, dir_ok))

SetOrigin ==
    /\ call = NoCall
    /\ motor.state = Idle
    /\ motor' = set_origin(motor)
    /\ call' = [op |-> "set_origin", result |-> "Ok", effects |-> NoEffects,
                before |-> motor]
    /\ repositioned' = TRUE
    /\ UNCHANGED << pins, move, directed, profileVars >>

SetPosition ==
    /\ call = NoCall
    /\ motor.state = Idle
    /\ \E deg \in Degs :
          /\ motor' = set_position(motor, deg)
          /\ call' = [op |-> "set_position", result |-> "Ok", degrees |-> deg,
                      effects |-> NoEffects, before |-> motor]
    /\ repositioned' = TRUE
    /\ UNCHANGED << pins, move, directed, profileVars >>

\* The model follows the pulses of a move of at most MaxRun steps.
RunBounded(self) ==
    IF self.executor = None THEN TRUE
    ELSE WLe(self.executor[1].profile.total_steps, W(MaxRun))

\* What a call of step() or run_to_completion() leaves behind: r is what the
\* call returned, ret the boolean that step() returned, if it did.  The
\* order of the effects is on record for a call of step().
AfterRun(op, r, ret) ==
    /\ motor' = r.motor
    /\ pins' = r.pins
    /\ call' = [op |-> op, result |-> r.result, ret |-> ret,
                effects |-> r.effects, pulses |-> r.pulses, before |-> motor,
                trace |-> IF op = "step" THEN r.trace ELSE << >>]
    /\ move' = [move EXCEPT !.pulses = @ + r.pulses]
    /\ UNCHANGED << repositioned, directed, profileVars >>

\* What a call of step() that returned r leaves behind.
Stepped(r) == AfterRun("step", r, IF r.result = "Ok" THEN Some(r.ret) ELSE None)

Step ==
    /\ call = NoCall
    /\ motor.state = Moving
    /\ RunBounded(motor)
    /\ \E high_ok, low_ok \in BOOLEAN :
          Stepped(step(motor, pins, high_ok, low_ok))

Finish ==
    /\ call = NoCall
    /\ motor.state = Moving
    /\ motor' = finish(motor)
    /\ call' = [op |-> "finish", result |-> "Ok", effects |-> NoEffects,
                before |-> motor]
    /\ UNCHANGED << pins, move, repositioned, directed, profileVars >>

\* The pin write that fails during a run, if one does.
Fails ==
    {None} \cup { Some([call |-> n, write |-> w]) :
                    n \in 0 .. FailCalls - 1, w \in {"high", "low"} }

RunToCompletion ==
    /\ call = NoCall
    /\ motor.state = Moving
    /\ RunBounded(motor)
    /\ \E fail \in Fails :
          AfterRun("run_to_completion", run_to_completion(motor, pins, fail), None)

\* move_to_blocking on a motor that move_to takes to mv: what is left of the
\* call is what follows its call of move_to.
BlockingFrom(target, dir_ok, mv) ==
    /\ RunBounded(mv.motor)
    /\ \E fail \in (IF mv.result = "Ok" THEN Fails ELSE {None}) :
          AfterMove("move_to_blocking", BlockingMoved(mv, fail))

MoveToBlocking ==
    /\ call = NoCall
    /\ motor.state = Idle
    /\ \E target \in Degs \cup {BigDeg}, dir_ok \in BOOLEAN :
          BlockingFrom(target, dir_ok, move_to(motor, pins, target, dir_ok))

\* What a call of execute leaves behind: r is what the call returned, ran
\* the profile of the move it began, if it began one.  The pins before the
\* call are on record too.
AfterExecute(name, r, ran) ==
    /\ motor' = r.motor
    /\ pins' = r.pins
    /\ call' = [op |-> "execute", trajectory |-> name, result |-> r.result,
                detail |-> r.detail, target_steps |-> r.target_steps,
                effects |-> r.effects, pulses |-> r.pulses,
                direction |-> r.direction, directed |-> directed,
                profile |-> ran, before |-> motor, pins_before |-> pins]
    /\ move' = IF r.result \in {"Ok", "Panic"}
               THEN [start |-> motor.position.steps,
                     target_steps |-> r.target_steps,
                     pulses |-> r.pulses, by |-> "execute"]
               ELSE NoMove
    /\ directed' = IF r.result \in {"Ok", "Panic"} THEN r.direction ELSE directed
    /\ UNCHANGED << repositioned, profileVars >>

\* execute of a trajectory of this motor, on a motor that move_to takes to
\* mv: what is left of the call is move_to_blocking(target) after its call of
\* move_to.
ExecuteMoving(name, dir_ok, mv) ==
    /\ RunBounded(mv.motor)
    /\ \E fail \in (IF mv.result = "Ok" THEN Fails ELSE {None}) :
          AfterExecute(name, BlockingMoved(mv, fail),
                       IF mv.result = "Ok"
                       THEN Some(mv.motor.executor[1].profile) ELSE None)

\* execute once the registry has answered found: a name that is refused
\* returns at once, the trajectory of this motor goes on to move_to.
ExecuteLooked(name, found) ==
    IF (IF found = None THEN TRUE ELSE found[1].motor # motor.name)
    THEN AfterExecute(name, execute(motor, pins, name, Registry, TRUE, None),
                      None)
    ELSE \E dir_ok \in BOOLEAN :
            ExecuteMoving(name, dir_ok,
                          move_to(motor, pins, found[1].target_degrees, dir_ok))

Execute ==
    /\ call = NoCall
    /\ motor.state = Idle
    /\ \E name \in ExecuteNames : ExecuteLooked(name, get(Registry, name))

Next ==
    \/ Acknowledge
    \/ MoveTo
    \/ MoveBy
    \/ SetOrigin
    \/ SetPosition
    \/ Step
    \/ Finish
    \/ RunToCompletion
    \/ MoveToBlocking
    \/ Execute

Spec == Init /\ [][Next]_vars

(***************************************************************************)
(* The profile calculator and the executor on their own.                   *)
(***************************************************************************)
ProfileInit ==
    /\ \E total_steps \in StepInputs, max_velocity, acceleration,
          deceleration \in RateInputs :
          input = [total_steps |-> total_steps, max_velocity |-> max_velocity,
                   acceleration |-> acceleration, deceleration |-> deceleration]
    /\ profile = None /\ executor = None /\ test = None
    /\ motor = None /\ pins = None /\ call = None /\ move = None
    /\ repositioned = FALSE
    /\ directed = None

Plan ==
    /\ profile = None
    /\ profile' = Some([by |-> "asymmetric_trapezoidal",
                        p |-> asymmetric_trapezoidal(input.total_steps,
                                  input.max_velocity, input.acceleration,
                                  input.deceleration)])
    /\ UNCHANGED << input, executor, test, driverVars >>

PlanSymmetric ==
    /\ profile = None
    /\ profile' = Some([by |-> "symmetric_trapezoidal",
                        p |-> symmetric_trapezoidal(input.total_steps,
                                  input.max_velocity, input.acceleration)])
    /\ UNCHANGED << input, executor, test, driverVars >>

NewExecutor ==
    /\ profile # None
    /\ executor = None
    /\ executor' = Some(new(profile[1].p))
    /\ test' = [calls |-> 0, resets |-> 0]
    /\ UNCHANGED << input, profile, driverVars >>

\* advance() calls are followed up to MaxRun steps and ExtraCalls calls past
\* completion.
Advanced(adv) ==
    /\ executor' = Some(adv.executor)
    /\ test' = [calls |-> test.calls + 1, resets |-> test.resets,
                ret |-> adv.ret, before |-> executor[1]]

Advance ==
    /\ executor # None
    /\ WLt(executor[1].current_step, W(MaxSteps))
    /\ test.calls < profile[1].p.total_steps.lo + ExtraCalls
       \/ profile[1].p.total_steps.hi # 0
    /\ Advanced(advance(executor[1]))
    /\ UNCHANGED << input, profile, driverVars >>

Reset ==
    /\ executor # None
    /\ test.resets = 0
    /\ executor' = Some(reset(executor[1]))
    /\ test' = [calls |-> 0, resets |-> 1, before |-> executor[1]]
    /\ UNCHANGED << input, profile, driverVars >>

ProfileNext ==
    \/ Plan
    \/ PlanSymmetric
    \/ NewExecutor
    \/ Advance
    \/ Reset

ProfileSpec == ProfileInit /\ [][ProfileNext]_vars

(***************************************************************************)
(* run_to_completion, one pass of its loop at a time.  The run begins on   *)
(* the motor that a move_to returned; call is the account of the run: pc   *)
(* is "while" at the loop test and "returned" once the call has returned.  *)
(***************************************************************************)
\* The run begins on the motor that move_to returned in mv.
RunFrom(mv) ==
    /\ mv.result = "Ok"
    /\ RunBounded(mv.motor)
    /\ motor = mv.motor
    /\ pins = mv.pins
    /\ call = [op |-> "run_to_completion", pc |-> "while", result |-> "none",
               effects |-> NoEffects, pulses |-> 0, before |-> mv.motor]
    /\ move = [start |-> mv.motor.position.steps,
               target_steps |-> mv.target_steps, pulses |-> 0, by |-> "move_to"]
    /\ directed = mv.direction

RunInit ==
    /\ \E config \in Configs, start \in Degs, target \in Degs \cup {BigDeg} :
          RunFrom(move_to(set_position(build(config), start), PinsInit,
                          target, TRUE))
    /\ repositioned = TRUE
    /\ input = None /\ profile = None /\ executor = None /\ test = None

\* The call of step() in the loop returned s: an error returns from
\* run_to_completion, and the motor is gone with it.
LoopStepped(s) ==
    /\ motor' = IF s.result = "Ok" THEN s.motor
                ELSE [s.motor EXCEPT !.state = Dropped]
    /\ pins' = s.pins
    /\ call' = [call EXCEPT
                   !.pc = IF s.result = "Ok" THEN "while" ELSE "returned",
                   !.result = IF s.result = "Ok" THEN "none" ELSE s.result,
                   !.effects = AddEffects(@, s.effects),
                   !.pulses = @ + s.pulses]
    /\ move' = [move EXCEPT !.pulses = @ + s.pulses]

\* while !self.is_complete() { self.step()?; }
LoopStep ==
    /\ call.pc = "while"
    /\ ~motor_is_complete(motor)
    /\ \E high_ok, low_ok \in BOOLEAN :
          LoopStepped(step(motor, pins, high_ok, low_ok))
    /\ UNCHANGED << repositioned, directed, profileVars >>

\* Ok(self.finish())
LoopFinish ==
    /\ call.pc = "while"
    /\ motor_is_complete(motor)
    /\ motor' = finish(motor)
    /\ call' = [call EXCEPT !.pc = "returned", !.result = "Ok"]
    /\ UNCHANGED << pins, move, repositioned, directed, profileVars >>

RunNext ==
    \/ LoopStep
    \/ LoopFinish

\* The program runs on as long as run_to_completion has not returned.
RunSpec == RunInit /\ [][RunNext]_vars /\ WF_vars(RunNext)

(***************************************************************************)
(* The limits on their own: SoftLimits::apply and StepLimits::apply on      *)
(* bounds and targets of whole degrees, one step per degree.  input is the  *)
(* bounds, the policy and the target; test is the call made, what it        *)
(* returned, and what a second call on the value returned returns.          *)
(***************************************************************************)
\* The targets lie within and one degree around the range of the bounds.
LimitTargets == (-MaxDeg - 1) .. (MaxDeg + 1)

LimitsInit ==
    /\ \E min \in -MaxDeg .. MaxDeg, max \in -MaxDeg .. MaxDeg,
          policy \in { Reject, Clamp }, target \in LimitTargets :
          input = [min |-> min, max |-> max, policy |-> policy,
                   target |-> target]
    /\ test = None
    /\ profile = None /\ executor = None
    /\ motor = None /\ pins = None /\ call = None /\ move = None
    /\ repositioned = FALSE
    /\ directed = None

\* The soft limits of the input.
InputLimits ==
    [min |-> F32FromInt(input.min), max |-> F32FromInt(input.max),
     policy |-> input.policy]

\* SoftLimits::apply(target), and apply on the value it returned.
ApplySoft ==
    /\ test = None
    /\ LET result == SoftLimits_apply(InputLimits, F32FromInt(input.target))
       IN test' = [limits |-> "SoftLimits", result |-> result,
                   again |-> IF result = None THEN None
                             ELSE SoftLimits_apply(InputLimits, result[1])]
    /\ UNCHANGED << input, profile, executor, driverVars >>

\* StepLimits::apply(target) on the limits converted to steps, and apply on
\* the value it returned.
ApplySteps ==
    /\ test = None
    /\ LET limits == from_soft_limits(InputLimits, F32FromInt(1))
           result == apply(limits, W(input.target))
       IN test' = [limits |-> "StepLimits", result |-> result,
                   again |-> IF result = None THEN None
                             ELSE apply(limits, result[1])]
    /\ UNCHANGED << input, profile, executor, driverVars >>

LimitsNext ==
    \/ ApplySoft
    \/ ApplySteps

LimitsSpec == LimitsInit /\ [][LimitsNext]_vars

(***************************************************************************)
(* The registry on its own: TrajectoryRegistry::from_config, one pass of   *)
(* its loop at a time, and get() on the registry it returned.  input is a   *)
(* system configuration; test is the registry under construction and the    *)
(* number n of trajectories the loop has been through, then, once           *)
(* from_config has returned, the len() of the registry and a name looked up *)
(* in it.                                                                   *)
(***************************************************************************)
\* The most trajectories of a configuration.
MaxTrajectories == 34

\* The names of the trajectories of a configuration.
TrajectoryNames ==
    << "t01", "t02", "t03", "t04", "t05", "t06", "t07", "t08", "t09",
       "t10", "t11", "t12", "t13", "t14", "t15", "t16", "t17", "t18",
       "t19", "t20", "t21", "t22", "t23", "t24", "t25", "t26", "t27",
       "t28", "t29", "t30", "t31", "t32", "t33", "t34", "t35", "t36" >>

\* The configuration of the first n names, each with a target of its own.
SystemOf(n) ==
    [trajectories |->
        [i \in 1 .. n |->
            [name |-> TrajectoryNames[i], trajectory |-> Trajectory("x", i)]]]

RegistryInit ==
    /\ \E n \in 0 .. MaxTrajectories :
          /\ n <= ConfigTrajectories
          /\ input = SystemOf(n)
    /\ test = None
    /\ profile = None /\ executor = None
    /\ motor = None /\ pins = None /\ call = None /\ move = None
    /\ repositioned = FALSE
    /\ directed = None

\* let mut registry = Self::new();
NewRegistry ==
    /\ test = None
    /\ test' = [pc |-> "for", registry |-> TrajectoryRegistry_new, n |-> 0]
    /\ UNCHANGED << input, profile, executor, driverVars >>

\* for (name, trajectory) in &config.trajectories { let _ = register(..); }
\* One pass of the loop: the result of register is dropped.
RegisterNext ==
    /\ test # None
    /\ test.pc = "for"
    /\ test.n < Len(input.trajectories)
    /\ test' = [test EXCEPT
                   !.registry =
                       register(test.registry,
                                input.trajectories[test.n + 1].name,
                                input.trajectories[test.n + 1].trajectory).registry,
                   !.n = @ + 1]
    /\ UNCHANGED << input, profile, executor, driverVars >>

\* from_config returns the registry; the caller reads its len().
ReturnRegistry ==
    /\ test # None
    /\ test.pc = "for"
    /\ test.n >= Len(input.trajectories)
    /\ test' = [pc |-> "returned", registry |-> test.registry,
                len |-> len(test.registry), name |-> None, found |-> None]
    /\ UNCHANGED << input, profile, executor, driverVars >>

\* registry.get(name), for a name of the list or a name that is none of them.
Lookup ==
    /\ test # None
    /\ test.pc = "returned"
    /\ test.name = None
    /\ \E name \in { TrajectoryNames[i] : i \in 1 .. MaxTrajectories + 1 }
                    \cup { "absent" } :
          test' = [test EXCEPT !.name = Some(name),
                               !.found = get(test.registry, name)]
    /\ UNCHANGED << input, profile, executor, driverVars >>

RegistryNext ==
    \/ NewRegistry
    \/ RegisterNext
    \/ ReturnRegistry
    \/ Lookup

RegistrySpec == RegistryInit /\ [][RegistryNext]_vars

(***************************************************************************)
(* A move driven by the caller, one call of step() at a time, with the     *)
(* rising edges of the STEP pin counted.  The move begins on the motor     *)
(* that a move_to returned; test is the number of set_high writes of the   *)
(* STEP pin that succeeded since then, and the number of calls of step()   *)
(* that returned an error.                                                 *)
(***************************************************************************)
\* The calls of step() that fail during one move.
MaxFailedSteps == 2

\* The move begins on the motor that move_to returned in mv.
PulsesFrom(mv) ==
    /\ mv.result = "Ok"
    /\ RunBounded(mv.motor)
    /\ motor = mv.motor
    /\ pins = mv.pins
    /\ call = NoCall
    /\ move = [start |-> mv.motor.position.steps,
               target_steps |-> mv.target_steps, pulses |-> 0, by |-> "move_to"]
    /\ directed = mv.direction

PulsesInit ==
    /\ \E config \in Configs, start \in Degs, target \in Degs :
          PulsesFrom(move_to(set_position(build(config), start), PinsInit,
                             target, TRUE))
    /\ repositioned = TRUE
    /\ test = [rising |-> 0, failed |-> 0]
    /\ input = None /\ profile = None /\ executor = None

\* The set_high writes of the STEP pin that succeeded in a call of step().
RisingEdges(trace) ==
    Cardinality({ i \in 1 .. Len(trace) : trace[i] = StepHigh(TRUE) })

\* A call of step() returned s.
StepCounted(s) ==
    /\ s.result # "Ok" => test.failed < MaxFailedSteps
    /\ motor' = s.motor
    /\ pins' = s.pins
    /\ call' = [op |-> "step", result |-> s.result,
                ret |-> IF s.result = "Ok" THEN Some(s.ret) ELSE None,
                effects |-> s.effects, pulses |-> s.pulses, before |-> motor,
                trace |-> s.trace]
    /\ move' = [move EXCEPT !.pulses = @ + s.pulses]
    /\ test' = [rising |-> test.rising + RisingEdges(s.trace),
                failed |-> test.failed + IF s.result = "Ok" THEN 0 ELSE 1]

\* step(), with each outcome of its two STEP writes.
CountedStep ==
    /\ motor.state = Moving
    /\ \E high_ok, low_ok \in BOOLEAN :
          StepCounted(step(motor, pins, high_ok, low_ok))
    /\ UNCHANGED << repositioned, directed, input, profile, executor >>

\* finish(), on a move that is complete or that is abandoned.
CountedFinish ==
    /\ motor.state = Moving
    /\ motor' = finish(motor)
    /\ call' = [op |-> "finish", result |-> "Ok", effects |-> NoEffects,
                before |-> motor]
    /\ UNCHANGED << pins, move, repositioned, directed, profileVars >>

PulsesNext ==
    \/ CountedStep
    \/ CountedFinish

PulsesSpec == PulsesInit /\ [][PulsesNext]_vars

(***************************************************************************)
(* A system configuration on its way from the file to a move: it is        *)
(* validated, the MotorSystem is made of it, the motor that a trajectory   *)
(* names is built, and the motor executes the trajectory.  input is the    *)
(* configuration; test is the position of the program, the result of       *)
(* validate_config, the MotorSystem and the trajectory chosen.             *)
(***************************************************************************)
\* The soft limits of the configured motors; the last pair is not valid.
SystemLimits ==
    { None,
      Some([min |-> F32FromInt(-1), max |-> F32FromInt(1), policy |-> Reject]),
      Some([min |-> F32FromInt(1), max |-> F32FromInt(1), policy |-> Clamp]) }

\* A sequence (config/trajectory.rs) of a motor.
Waypoints(motor_name, waypoints) ==
    [motor |-> motor_name, waypoints |-> waypoints, dwell_ms |-> 0,
     velocity_percent |-> 100]

\* The sequences of a configuration: none, one, or one without waypoints.
SystemSequences ==
    { << >>,
      << [name |-> "sweep",
          sequence |-> Waypoints("pan", << F32FromInt(1), F32FromInt(0) >>)] >>,
      << [name |-> "empty", sequence |-> Waypoints("pan", << >>)] >> }

\* Two motors under the keys pan and tilt, and the trajectory go.
SystemWith(pan, tilt_name, trajectory, sequences) ==
    [motors |-> << [key |-> "pan", config |-> pan],
                   [key |-> "tilt",
                    config |-> [BaseConfig EXCEPT !.name = tilt_name]] >>,
     trajectories |-> << [name |-> "go", trajectory |-> trajectory] >>,
     sequences |-> sequences]

SystemInit ==
    /\ \E pan_name \in { "pan", "Pan Axis" }, tilt_name \in { "tilt", "pan" },
          max_velocity \in { 0, 2 }, limits \in SystemLimits,
          motor_name \in { "pan", "tilt", "Pan Axis" },
          target \in 0 .. MaxDeg, velocity_percent \in { 0, 50, 201 },
          sequences \in SystemSequences :
          input = SystemWith(
                      [BaseConfig EXCEPT
                          !.name = pan_name,
                          !.max_velocity = F32FromInt(max_velocity),
                          !.limits = limits],
                      tilt_name,
                      [Trajectory(motor_name, target) EXCEPT
                          !.velocity_percent = velocity_percent],
                      sequences)
    /\ test = [pc |-> "loaded"]
    /\ profile = None /\ executor = None
    /\ motor = None /\ pins = None /\ call = None /\ move = None
    /\ repositioned = FALSE
    /\ directed = None

\* validate_config(&config)?
Validate ==
    /\ test.pc = "loaded"
    /\ test' = [pc |-> IF validate_config(input) = "Ok" THEN "valid"
                       ELSE "rejected",
                result |-> validate_config(input)]
    /\ UNCHANGED << input, profile, executor, driverVars >>

\* MotorSystem::from_config(config)
NewSystem ==
    /\ test.pc = "valid"
    /\ test' = [pc |-> "system", system |-> MotorSystem_from_config(input)]
    /\ UNCHANGED << input, profile, executor, driverVars >>

\* The motor that built returned, for the trajectory under name.
Built(name, built) ==
    /\ built.result = "Ok"
    /\ motor' = built.motor[1]
    /\ pins' = PinsInit
    /\ test' = [pc |-> "built", system |-> test.system, trajectory |-> name]
    /\ UNCHANGED << input, profile, executor, call, move, repositioned,
                    directed >>

\* system.build_motor(key, ..) with the key that a trajectory names.
BuildMotor ==
    /\ test.pc = "system"
    /\ \E i \in 1 .. Len(input.trajectories) :
          Built(input.trajectories[i].name,
                build_motor(test.system, input.trajectories[i].trajectory.motor))

\* StepperMotorBuilder::new().from_config(&config, key)?.build() with the
\* key that a trajectory names.
BuildFromConfig ==
    /\ test.pc = "system"
    /\ \E i \in 1 .. Len(input.trajectories) :
          Built(input.trajectories[i].name,
                StepperMotorBuilder_from_config(
                    input, input.trajectories[i].trajectory.motor))

\* motor.execute(name, system.trajectories()) returned r.
Executed(r) ==
    /\ motor' = r.motor
    /\ pins' = r.pins
    /\ call' = [op |-> "execute", trajectory |-> test.trajectory,
                result |-> r.result, detail |-> r.detail,
                target_steps |-> r.target_steps, effects |-> r.effects,
                pulses |-> r.pulses, before |-> motor]
    /\ test' = [test EXCEPT !.pc = "executed"]
    /\ UNCHANGED << input, profile, executor, move, repositioned, directed >>

ExecuteTrajectory ==
    /\ test.pc = "built"
    /\ \E dir_ok \in BOOLEAN, fail \in Fails :
          Executed(execute(motor, pins, test.trajectory, test.system.registry,
                           dir_ok, fail))

SystemNext ==
    \/ Validate
    \/ NewSystem
    \/ BuildMotor
    \/ BuildFromConfig
    \/ ExecuteTrajectory

SystemSpec == SystemInit /\ [][SystemNext]_vars

(***************************************************************************)
(* The claims.                                                             *)
(***************************************************************************)
Positive(x) == F32Lt(F32_0_0, x)

\* The calls that go through move_to.
MoveOps == { "move_to", "move_by", "move_to_blocking" }

PhaseSum(p) == WAdd(WAdd(p.accel_steps, p.cruise_steps), p.decel_steps)

\* The profile was computed by `by` from a step count that is not zero and
\* rates that are positive.
PlannedBy(by) ==
    /\ profile # None
    /\ profile[1].by = by
    /\ input.total_steps # W(0)
    /\ Positive(input.max_velocity)
    /\ Positive(input.acceleration)
    /\ by = "asymmetric_trapezoidal" => Positive(input.deceleration)

\* C1: for every signed step count that is not zero and positive rates, the
\* profile of asymmetric_trapezoidal has accel_steps + cruise_steps +
\* decel_steps = total_steps = |signed step count|.
C1_PhasesSumToSteps ==
    PlannedBy("asymmetric_trapezoidal") =>
        /\ PhaseSum(profile[1].p) = profile[1].p.total_steps
        /\ profile[1].p.total_steps = unsigned_abs(input.total_steps)

\* The motor is configured with positive maximum velocity and acceleration.
PositiveRates(self) ==
    /\ Positive(self.constraints.max_velocity)
    /\ Positive(self.constraints.max_acceleration)

\* C2: on a motor with positive rates, when move_to returned Ok and
\* run_to_completion then returned Ok, the motor is Idle, its position is the
\* target_steps that move_to computed, and |target_steps - start| pulses were
\* issued.
C2_RunReachesTarget ==
    (call.op = "run_to_completion" /\ call.result = "Ok"
       /\ move.by = "move_to" /\ PositiveRates(motor)) =>
        /\ motor.state = Idle
        /\ motor.position.steps = move.target_steps
        /\ W(move.pulses) = unsigned_abs(WSub(move.target_steps, move.start))

C4_ZeroMoveIsTooShort ==
    (call.op \in MoveOps /\ call.target_steps = call.before.position.steps) =>
        /\ call.result = "MoveTooShort"
        /\ motor = call.before
        /\ motor.state = Idle
        /\ motor.executor = None

\* A move to the current position was refused on a motor that stands outside
\* its limits.
C4_Witness ==
    /\ call.op = "move_to"
    /\ call.result = "MoveTooShort"
    /\ motor.constraints.limits # None
    /\ ~contains(motor.constraints.limits[1], motor.position.steps)

\* The target of the last move lies outside the limits, whose policy is given.
TargetOutside(policy) ==
    /\ call.op \in MoveOps
    /\ call.before.constraints.limits # None
    /\ call.before.constraints.limits[1].policy = policy
    /\ \/ WLt(call.target_steps, call.before.constraints.limits[1].min_steps)
       \/ WLt(call.before.constraints.limits[1].max_steps, call.target_steps)

\* C5: under Reject limits, a call of move_to whose target in steps lies
\* outside [min_steps, max_steps] and differs from the position returns
\* LimitExceeded and the motor as it was: Idle, same position, no executor.
C5_RejectLeavesMotor ==
    (TargetOutside(Reject) /\ call.target_steps # call.before.position.steps) =>
        /\ call.result = "LimitExceeded"
        /\ motor = call.before
        /\ motor.state = Idle
        /\ motor.position = call.before.position
        /\ motor.executor = None

\* A move beyond the upper limit was refused.
C5_Witness ==
    /\ TargetOutside(Reject)
    /\ call.result = "LimitExceeded"
    /\ call.detail.limit = motor.constraints.limits[1].max_steps
    /\ WLt(motor.constraints.limits[1].max_steps, call.target_steps)

\* C6: a call of move_to that returns MoveTooShort or LimitExceeded has
\* written neither pin and requested no delay.
C6_RefusalTouchesNoPin ==
    (call.op \in MoveOps /\ call.result \in {"MoveTooShort", "LimitExceeded"}) =>
        /\ call.effects.dir_writes = 0
        /\ call.effects.step_writes = 0
        /\ call.effects.delays = 0

\* A move was refused on a motor whose DIR pin was never written: an accepted
\* move would have written it.
C6_Witness ==
    /\ call.op = "move_by"
    /\ call.result \in {"MoveTooShort", "LimitExceeded"}
    /\ motor.current_direction = None
    /\ pins = PinsInit

\* The motor has Reject limits around its initial position and was never
\* repositioned.
RejectFromInside ==
    /\ motor.constraints.limits # None
    /\ motor.constraints.limits[1].policy = Reject
    /\ WLe(motor.constraints.limits[1].min_steps, W(0))
    /\ WLe(W(0), motor.constraints.limits[1].max_steps)
    /\ ~repositioned

\* C7: a motor with Reject limits that starts inside them stays inside them
\* through every move_to, move_by, step, finish and run_to_completion, as long
\* as set_position and set_origin are not called.
C7_RejectKeepsPositionInside ==
    RejectFromInside =>
        /\ WLe(motor.constraints.limits[1].min_steps, motor.position.steps)
        /\ WLe(motor.position.steps, motor.constraints.limits[1].max_steps)

\* The motor has stepped down to its lower limit.
C7_Witness ==
    /\ RejectFromInside
    /\ call.op = "step"
    /\ call.pulses = 1
    /\ motor.position.steps = motor.constraints.limits[1].min_steps
    /\ WLt(motor.position.steps, W(0))

\* C8: under Clamp limits, a move_to whose target lies beyond a bound is
\* accepted and run_to_completion ends at that bound: at max_steps for a
\* target above the range, at min_steps for one below.
C8_ClampStopsAtBound ==
    (call.op = "run_to_completion" /\ call.result = "Ok" /\ move.by = "move_to"
       /\ motor.constraints.limits # None
       /\ motor.constraints.limits[1].policy = Clamp) =>
        /\ WLt(motor.constraints.limits[1].max_steps, move.target_steps) =>
               motor.position.steps = motor.constraints.limits[1].max_steps
        /\ WLt(move.target_steps, motor.constraints.limits[1].min_steps) =>
               motor.position.steps = motor.constraints.limits[1].min_steps

\* The move that finish() ended: its direction and its length.
Finished == call.before.executor[1].profile

\* C9: finish() after k successful calls of step() returns an Idle motor
\* without executor whose position is start + sign * k; for k < total_steps
\* the target is not reached; and a move_to that succeeds (on a motor with
\* positive rates) plans its steps from the position of the motor it is called
\* on.
C9_FinishKeepsPulsedPosition ==
    /\ call.op = "finish" =>
          /\ motor.state = Idle
          /\ motor.executor = None
          /\ motor.position.steps =
                 WAdd(move.start, W(sign(Finished.direction) * move.pulses))
          /\ WLt(W(move.pulses), Finished.total_steps) =>
                 motor.position.steps # move.target_steps
    /\ (call.op = "move_to" /\ call.result = "Ok" /\ PositiveRates(motor)) =>
          motor.executor[1].profile.total_steps =
              StepCount(WSub(call.target_steps, call.before.position.steps))

\* A counter-clockwise move of more than one step was abandoned after its
\* first pulse.
C9_Witness ==
    /\ call.op = "finish"
    /\ move.pulses = 1
    /\ Finished.direction = CounterClockwise
    /\ WLt(W(1), Finished.total_steps)

\* C10: for every step count that is not zero and positive v and a,
\* symmetric_trapezoidal gives accel_steps = decel_steps.
C10_SymmetricRampsEqual ==
    PlannedBy("symmetric_trapezoidal") =>
        profile[1].p.accel_steps = profile[1].p.decel_steps

\* C11: when the acceleration rate is above the deceleration rate (both
\* positive), the deceleration ramp has at least as many steps as the
\* acceleration ramp, in the trapezoid case and in the triangle case.
C11_SlowerRampIsLonger ==
    (PlannedBy("asymmetric_trapezoidal")
       /\ F32Lt(input.deceleration, input.acceleration)) =>
        WLe(profile[1].p.accel_steps, profile[1].p.decel_steps)

\* The steps below total_steps at which the model reads the interval: the
\* first MaxSteps of the profile.
IntervalSteps(p) ==
    { W(n) : n \in { k \in 0 .. MaxSteps - 1 : WLt(W(k), p.total_steps) } }

\* C12: for every profile that is not zero and every step below total_steps,
\* interval_at(step) is at least cruise_interval_ns (the pulse rate is never
\* above the maximum velocity) and at most initial_interval_ns.
C12_IntervalWithinRates ==
    (PlannedBy("asymmetric_trapezoidal") /\ ~is_zero(profile[1].p)) =>
        \A at \in IntervalSteps(profile[1].p) :
            /\ WLe(profile[1].p.cruise_interval_ns, interval_at(profile[1].p, at))
            /\ WLe(interval_at(profile[1].p, at), profile[1].p.initial_interval_ns)

\* C13: for every signed step count and positive rates, the direction of the
\* profile is Clockwise when the count is not negative and CounterClockwise
\* when it is, and total_steps is the magnitude of the count.
C13_DirectionAndMagnitude ==
    (/\ profile # None
     /\ Positive(input.max_velocity)
     /\ Positive(input.acceleration)
     /\ (profile[1].by = "asymmetric_trapezoidal" => Positive(input.deceleration))) =>
        /\ profile[1].p.direction =
               IF WIsNeg(input.total_steps) THEN CounterClockwise ELSE Clockwise
        /\ profile[1].p.total_steps = unsigned_abs(input.total_steps)

\* An i64 times a natural number.
RECURSIVE WTimes(_, _)
WTimes(w, n) ==
    IF n = 0 THEN W(0)
    ELSE IF n % 2 = 1 THEN WAdd(w, WTimes(WAdd(w, w), n \div 2))
    ELSE WTimes(WAdd(w, w), n \div 2)

\* The value of a rate of the inputs, which is a whole number below 2^30.
RateValue(rate) == F32AsI64(rate).lo

\* v*v/(2*accel_rate) + v*v/(2*decel_rate) >= steps, in f32.
TriangleCondition(steps, v, accel_rate, decel_rate) ==
    F32Le(F32FromWide(steps),
          F32Add(F32Div(F32Mul(v, v), F32Mul(F32_2_0, accel_rate)),
                 F32Div(F32Mul(v, v), F32Mul(F32_2_0, decel_rate))))

\* q = trunc(steps * accel_rate / (accel_rate + decel_rate)), whole rates.
IsTruncatedShare(q, steps, accel_rate, decel_rate) ==
    /\ WLe(WTimes(q, accel_rate + decel_rate), WTimes(steps, accel_rate))
    /\ WLt(WTimes(steps, accel_rate),
           WTimes(WAdd(q, W(1)), accel_rate + decel_rate))

\* C14: whenever v*v/(2*accel_rate) + v*v/(2*decel_rate) >= steps, with all
\* inputs positive, the profile has cruise_steps = 0, accel_steps =
\* trunc(steps * accel_rate / (accel_rate + decel_rate)) and decel_steps =
\* steps - accel_steps.
C14_TriangleSplit ==
    (PlannedBy("asymmetric_trapezoidal")
       /\ TriangleCondition(unsigned_abs(input.total_steps), input.max_velocity,
                            input.acceleration, input.deceleration)) =>
        /\ profile[1].p.cruise_steps = W(0)
        /\ IsTruncatedShare(profile[1].p.accel_steps,
                            unsigned_abs(input.total_steps),
                            RateValue(input.acceleration),
                            RateValue(input.deceleration))
        /\ WAdd(profile[1].p.accel_steps, profile[1].p.decel_steps) =
               unsigned_abs(input.total_steps)

\* The order of the phases.
PhaseRank(phase) ==
    CASE phase = Accelerating -> 0
      [] phase = Cruising -> 1
      [] phase = Decelerating -> 2
      [] phase = Complete -> 3

\* The steps at which the model compares phases: the first MaxSteps, and the
\* steps on both sides of each boundary between phases, up to total_steps.
PhaseSteps(p) ==
    { s \in { W(n) : n \in 0 .. MaxSteps }
            \cup { WAdd(b, W(d)) :
                     b \in { p.accel_steps, WAdd(p.accel_steps, p.cruise_steps),
                             p.total_steps },
                     d \in -1 .. 0 } :
        WLe(W(0), s) /\ WLe(s, p.total_steps) }

\* C15: phase_at(step) never decreases in the order Accelerating, Cruising,
\* Decelerating, Complete as step goes from 0 to total_steps, and the phase
\* of an executor never goes backward from one advance() call to the next.
C15_PhasesMoveForward ==
    /\ profile # None =>
          \A s, t \in PhaseSteps(profile[1].p) :
              WLe(s, t) => PhaseRank(phase_at(profile[1].p, s))
                               <= PhaseRank(phase_at(profile[1].p, t))
    /\ (executor # None /\ test.calls > 0) =>
          PhaseRank(test.before.phase) <= PhaseRank(executor[1].phase)

\* An advance() call took an executor from the cruise phase to the
\* deceleration phase.
C15_Witness ==
    /\ executor # None
    /\ test.calls > 0
    /\ test.before.phase = Cruising
    /\ executor[1].phase = Decelerating

\* The results of a call through move_to that began a move.
Began == { "Ok", "Panic" }

\* C16: a move_to that succeeds writes the DIR pin once when the direction
\* of the move is not the direction of the last move_to that succeeded (or
\* when there was none), and does not write it when it is that direction.
C16_DirWrittenOnChange ==
    (call.op \in MoveOps /\ call.result \in Began) =>
        call.effects.dir_writes = IF call.directed = call.direction THEN 0 ELSE 1

\* A move_to from a position other than the origin succeeded without a DIR
\* write, counter-clockwise like the last move_to that succeeded.
C16_Witness ==
    /\ call.op \in MoveOps
    /\ call.result = "Ok"
    /\ call.effects.dir_writes = 0
    /\ call.directed = Some(CounterClockwise)
    /\ call.before.position.steps # W(0)

\* C17: when the DIR write fails in move_to, the call returns PinError and
\* the motor as it was (Idle, same position, same cached direction, no
\* executor), after one DIR write and no STEP write; a move_to in the same
\* direction on the motor returned writes the DIR pin again.
C17_DirFailureLeavesMotor ==
    (call.op \in MoveOps /\ call.result = "PinError") =>
        /\ motor = call.before
        /\ motor.state = Idle
        /\ motor.executor = None
        /\ motor.current_direction # call.direction
        /\ call.effects = [NoEffects EXCEPT !.dir_writes = 1]
        /\ \A dir_ok \in BOOLEAN :
               set_direction(motor, pins, call.direction[1], dir_ok).dir_writes = 1

\* The DIR write failed in a move_to against the cached direction.
C17_Witness ==
    /\ call.op \in MoveOps
    /\ call.result = "PinError"
    /\ call.before.current_direction # None

\* C18: when the move is complete, step() returns Ok(true) without any pin
\* write or delay and leaves the motor as it was; and whenever step()
\* returns Ok, it returns true exactly when the move is complete after the
\* call.
C18_StepAfterCompletion ==
    /\ (call.op = "step" /\ motor_is_complete(call.before)) =>
          /\ call.result = "Ok"
          /\ call.ret = Some(TRUE)
          /\ call.effects = NoEffects
          /\ call.pulses = 0
          /\ motor = call.before
    /\ (call.op = "step" /\ call.result = "Ok") =>
          call.ret = Some(motor_is_complete(motor))

\* step() was called on a motor whose move of at least one step was already
\* complete.
C18_Witness ==
    /\ call.op = "step"
    /\ motor_is_complete(call.before)
    /\ ~is_zero(call.before.executor[1].profile)

\* The rest of the move of the motor, driven without any pin failure.
Resumed == run_to_completion(motor, pins, None)

\* C20: when a STEP write fails in step(), the call returns PinError and
\* leaves the motor as it was: still Moving, same position, same executor;
\* and step() calls that succeed afterwards issue the steps that remain and
\* end the move at its target.
C20_StepFailureRecoverable ==
    (call.op = "step" /\ call.result = "PinError") =>
        /\ motor = call.before
        /\ motor.state = Moving
        /\ call.pulses = 0
        /\ Resumed.result = "Ok"
        /\ Resumed.pulses = steps_remaining(motor.executor[1]).lo
        /\ Resumed.motor.position.steps = move.target_steps

\* The steps of the profile that run_to_completion was called on.
RunSteps == call.before.executor[1].profile.total_steps.lo

\* run_to_completion has returned.
Returned == call.pc = "returned"

\* What a run has done so far, and what it returned.
RunAccount ==
    /\ call.pulses <= RunSteps
    /\ ~Returned =>
          /\ motor.state = Moving
          /\ call.effects.step_writes = 2 * call.pulses
    /\ (Returned /\ call.result = "Ok") =>
          /\ motor.state = Idle
          /\ motor.executor = None
          /\ call.pulses = RunSteps
          /\ call.effects.step_writes = 2 * call.pulses
    /\ (Returned /\ call.result # "Ok") =>
          /\ call.result = "PinError"
          /\ call.effects.step_writes - 2 * call.pulses \in {1, 2}

\* C19: run_to_completion always returns: on a profile of N steps it issues
\* at most N pulses and then returns the Idle motor, or it returns the first
\* error of step() with no pulse issued after the write that failed.
C19_RunTerminates == []RunAccount /\ <>Returned

\* A run of more than one step returned the Idle motor.
C19_Witness ==
    /\ Returned
    /\ call.result = "Ok"
    /\ call.pulses > 1
    /\ motor.state = Idle


\* The calls that run a move to its end before they return.
BlockingOps == { "move_to_blocking", "execute" }

\* The errors raised before a move is committed.
EarlyErrors == { "MoveTooShort", "LimitExceeded", "PinError", "InvalidName" }

\* A STEP write of the last call failed: every pulse takes two STEP writes,
\* and a write that fails ends the call before its pulse is counted.
StepWriteFailed == call.effects.step_writes # 2 * move.pulses

Named == get(Registry, call.trajectory)

\* The name of the last call of execute is absent from the registry, or names
\* the trajectory of another motor.
NameRefused ==
    IF Named = None THEN TRUE ELSE Named[1].motor # call.before.name

\* C22: execute(name, registry) fails with a trajectory error (InvalidName)
\* when the name is absent from the registry and when the motor field of the
\* trajectory differs from the name of this motor, and in no other case; in
\* both cases the same Idle motor is returned, its Position unchanged, and no
\* pin was written.
C22_ExecuteRefusesName ==
    call.op = "execute" =>
        /\ call.result = "InvalidName" <=> NameRefused
        /\ NameRefused =>
              /\ motor = call.before
              /\ motor.state = Idle
              /\ motor.position = call.before.position
              /\ pins = call.pins_before
              /\ call.effects = NoEffects

\* execute refused the trajectory of another motor, on a motor that has moved
\* away from its origin.
C22_Witness ==
    /\ call.op = "execute"
    /\ call.trajectory = "other"
    /\ call.result = "InvalidName"
    /\ motor.position.steps # W(0)
    /\ pins.dir # "unset"

\* The distance of the move that the last call asked for.
Delta == WSub(call.target_steps, call.before.position.steps)

\* The profile of the effective velocity, acceleration and deceleration of a
\* trajectory, over the distance of the last call.
EffectiveProfile(trajectory, constraints) ==
    asymmetric_trapezoidal(
        Delta,
        velocity_to_steps(constraints,
                          effective_velocity(trajectory, constraints)),
        acceleration_to_steps(constraints,
                              effective_acceleration(trajectory, constraints)),
        acceleration_to_steps(constraints,
                              effective_deceleration(trajectory, constraints)))

\* C23: the motion profile that execute(name, registry) runs is built from
\* the effective velocity, acceleration and deceleration of the trajectory
\* (percent of the maximum or absolute override, the deceleration falling
\* back to the acceleration).
C23_ExecuteUsesEffectiveRates ==
    (call.op = "execute" /\ call.profile # None) =>
        call.profile[1] = EffectiveProfile(Named[1], call.before.constraints)

\* x is f32 and n the integer that x truncates to: the integer of the same
\* sign that is nearest to x and no further from zero.
IsTruncation(n, x) ==
    IF F32Le(F32_0_0, x)
    THEN /\ ~WIsNeg(n)
         /\ F32Le(F32FromWide(n), x)
         /\ F32Lt(x, F32FromWide(WAdd(n, W(1))))
    ELSE /\ ~WLt(W(0), n)
         /\ F32Le(x, F32FromWide(n))
         /\ F32Lt(F32FromWide(WSub(n, W(1))), x)

\* A call of set_origin or set_position is made in this step.
Repositions ==
    /\ call = NoCall
    /\ call'.op \in { "set_origin", "set_position" }

\* What a call of set_origin or set_position changes.
RepositionFrame ==
    /\ motor.state = Idle
    /\ motor'.state = Idle
    /\ pins' = pins
    /\ call'.effects = NoEffects
    /\ motor' = [motor EXCEPT !.position.steps = motor'.position.steps]
    /\ (call'.op = "set_origin" => motor'.position.steps = W(0))
    /\ (call'.op = "set_position" =>
           IsTruncation(motor'.position.steps,
                        F32Mul(call'.degrees, motor.constraints.steps_per_degree)))

\* C24: set_origin() and set_position(degrees) on an Idle motor change only
\* the steps of Position, to 0 and to trunc(degrees * steps_per_degree): no
\* pin is written, no delay is requested, the cached direction, the
\* constraints and every other field of the motor are unchanged, and the
\* motor stays Idle.
C24_RepositionOnlyMovesPosition == [][Repositions => RepositionFrame]_vars

\* set_position moved the position of a motor whose direction is cached and
\* whose DIR pin has been written.
C24_Witness ==
    /\ call.op = "set_position"
    /\ motor.position.steps # call.before.position.steps
    /\ motor.position.steps # W(0)
    /\ motor.current_direction # None
    /\ pins.dir # "unset"


\* What apply returns on whole numbers: the target inside the range, nothing
\* outside it under Reject, the nearest bound under Clamp.
Applied(min, max, policy, target) ==
    IF min <= target /\ target <= max THEN Some(target)
    ELSE IF policy = Reject THEN None
    ELSE IF target < min THEN Some(min)
    ELSE Some(max)

\* The whole number n as the limits of the last call hold it: degrees (f32)
\* in SoftLimits, steps (i64) in StepLimits.
LimitValue(n) == IF test.limits = "SoftLimits" THEN F32FromInt(n) ELSE W(n)

\* The value v lies between the bounds of the input.
WithinInput(v) ==
    IF test.limits = "SoftLimits"
    THEN F32Le(F32FromInt(input.min), v) /\ F32Le(v, F32FromInt(input.max))
    ELSE WLe(W(input.min), v) /\ WLe(v, W(input.max))

\* C25: for min <= max, apply(target) returns the target unchanged when
\* min <= target <= max; outside the range it returns nothing under Reject
\* and the nearest bound under Clamp; every value returned lies inside
\* [min, max], and apply on a value returned returns that value.  This holds
\* for SoftLimits (degrees) and for StepLimits (steps).
C25_ApplyLimits ==
    (test # None /\ input.min <= input.max) =>
        /\ test.result =
               IF Applied(input.min, input.max, input.policy, input.target) = None
               THEN None
               ELSE Some(LimitValue(Applied(input.min, input.max, input.policy,
                                            input.target)[1]))
        /\ test.result # None =>
              /\ WithinInput(test.result[1])
              /\ test.again = test.result

\* SoftLimits::apply clamped a target below the range to the lower bound.
C25_Witness ==
    /\ test # None
    /\ test.limits = "SoftLimits"
    /\ input.policy = Clamp
    /\ input.min < input.max
    /\ input.target < input.min
    /\ test.result = Some(F32FromInt(input.min))


\* A fresh executor of profile p after n calls of advance(), and what the
\* last of them returned.
RECURSIVE FreshAfter(_, _)
FreshAfter(p, n) ==
    IF n = 0 THEN [executor |-> new(p)]
    ELSE advance(FreshAfter(p, n - 1).executor)

\* C26: reset() returns the executor to its initial state from any state,
\* mid-move or Complete: afterwards current_step, phase, the current interval
\* and is_complete are those of MotionExecutor::new on the same profile, the
\* wrapped profile is unchanged, and the calls of advance() that follow return
\* what they return on a fresh executor and leave the executor as they leave
\* a fresh one.
C26_ResetRestarts ==
    (executor # None /\ test.resets = 1) =>
        /\ executor[1].profile = profile[1].p
        /\ test.calls = 0 =>
              /\ executor[1].current_step = new(profile[1].p).current_step
              /\ executor[1].phase = new(profile[1].p).phase
              /\ executor[1].current_interval_ns =
                     new(profile[1].p).current_interval_ns
              /\ is_complete(executor[1]) = is_complete(new(profile[1].p))
              /\ executor[1] = new(profile[1].p)
        /\ test.calls > 0 =>
              /\ executor[1] = FreshAfter(profile[1].p, test.calls).executor
              /\ test.ret = FreshAfter(profile[1].p, test.calls).ret

\* reset() was called in the middle of a move, on an executor whose interval
\* was no longer the initial one.
C26_Witness ==
    /\ executor # None
    /\ test.resets = 1
    /\ test.calls = 0
    /\ test.before.current_step # W(0)
    /\ ~is_complete(test.before)
    /\ test.before.current_interval_ns # executor[1].current_interval_ns


\* The trajectory that the configuration holds under a name, if it holds one.
Configured(name) ==
    IF Places(input.trajectories, name) = {} THEN None
    ELSE Some(input.trajectories[
                  CHOOSE i \in Places(input.trajectories, name) : TRUE].trajectory)

\* C27: TrajectoryRegistry::from_config registers every trajectory of the
\* SystemConfig: afterwards len() is the number of trajectories of the
\* configuration, and get(name) returns the configured trajectory for every
\* configured name and None for any other name.
C27_RegistryHoldsConfig ==
    (test # None /\ test.pc = "returned") =>
        /\ test.len = Len(input.trajectories)
        /\ test.name # None => test.found = Configured(test.name[1])


\* The last call is a move_to_blocking that ran a move of fewer than 2^32
\* steps to its end, on a motor with backlash compensation, after an earlier
\* move.
BacklashMove ==
    /\ call.op = "move_to_blocking"
    /\ call.result = "Ok"
    /\ call.directed # None
    /\ WLt(W(0), call.before.backlash_steps)
    /\ AsU32(unsigned_abs(Delta)) = unsigned_abs(Delta)

\* C28: the driver applies the backlash compensation: a move that reverses
\* the direction of the previous move, on a motor with backlash_steps > 0,
\* issues backlash_steps STEP pulses beyond the |delta| of the move, and a
\* move in the direction of the previous one issues |delta| pulses.
C28_BacklashOnReversal ==
    BacklashMove =>
        W(move.pulses) =
            IF call.directed # call.direction
            THEN WAdd(unsigned_abs(Delta), call.before.backlash_steps)
            ELSE unsigned_abs(Delta)

\* The direction of the move that the last call of step() belongs to, as a
\* change of the position.
PulseSign == sign(call.before.executor[1].profile.direction)

\* The last call of step() issued a pulse: its effects in their order, the
\* position and the executor afterwards.
PulseInOrder ==
    /\ Len(call.trace) >= 5
    /\ SubSeq(call.trace, 1, 5) =
           << StepHigh(TRUE), Delay(W(2000)), StepLow(TRUE),
              MoveSteps(PulseSign), AdvanceExecutor >>
    /\ PulseSign \in { 1, -1 }
    /\ motor.position.steps = WAdd(call.before.position.steps, W(PulseSign))
    /\ motor.executor[1].current_step =
           WAdd(call.before.executor[1].current_step, W(1))

\* The STEP writes of the last call of step() that succeeded.
StepWrites ==
    { i \in 1 .. Len(call.trace) :
        call.trace[i].ev \in { "set_high", "set_low" } /\ call.trace[i].ok }

\* What every call of step() keeps to.
StepInOrder ==
    call.op = "step" =>
        /\ call.pulses \in { 0, 1 }
        /\ call.pulses = 1 => PulseInOrder
        /\ call.pulses = 0 =>
              /\ motor.position = call.before.position
              /\ motor.executor = call.before.executor
        /\ (\/ motor.position # call.before.position
            \/ motor.executor # call.before.executor) =>
               /\ call.result = "Ok"
               /\ Cardinality(StepWrites) = 2
        /\ \A i \in 1 .. Len(call.trace) :
              /\ call.trace[i].ev \in { "set_high", "set_low" } =>
                     call.trace[i].pin = "STEP"
              /\ call.trace[i].ev \in { "move_steps", "advance" } =>
                     \E h, l \in StepWrites : h < l /\ l < i
        /\ call.effects.dir_writes = 0
        /\ motor.current_direction = call.before.current_direction

\* A call of step() leaves the DIR pin as it was.
StepKeepsDir == (call = NoCall /\ call'.op = "step") => pins'.dir = pins.dir

\* C29: a call of step() that issues a pulse performs its effects in this
\* order: STEP set_high, the hold of 2 microseconds, STEP set_low, Position
\* changed by exactly +1 or -1 according to the direction of the profile,
\* the executor advanced by one; Position and the executor change only after
\* both STEP writes succeeded, and step() never writes the DIR pin.
C29_PulseOrder == []StepInOrder /\ [][StepKeepsDir]_vars

\* step() issued a pulse of a counter-clockwise move.
C29_Witness ==
    /\ call.op = "step"
    /\ call.pulses = 1
    /\ PulseSign = -1
    /\ motor.position.steps = WSub(call.before.position.steps, W(1))

\* The executor of the last call of step(), before the call.
Pulsing == call.before.executor[1]

\* Steps remain after the pulse of the last call of step().
MoreSteps ==
    WLt(WAdd(Pulsing.current_step, W(1)), Pulsing.profile.total_steps)

\* The interval of the step that the last call of step() issued.
IssuedInterval ==
    IF Pulsing.current_step = W(0) THEN Pulsing.profile.initial_interval_ns
    ELSE interval_at(Pulsing.profile, Pulsing.current_step)

\* The interval less the pulse width of 2000 ns, and 0 if it is shorter.
WaitAfter(interval_ns) ==
    IF WLt(W(2000), interval_ns) THEN WSub(interval_ns, W(2000)) ELSE W(0)

\* C30: step() requests the wait between steps only when more steps remain
\* after the pulse, never after the last pulse of a move; the wait is the
\* interval of the executor that was current before advance() (the interval
\* of the step just issued) less the pulse width of 2000 ns, saturating at 0,
\* and no delay is requested when the difference is 0.  A call that issues no
\* pulse requests no wait.
C30_InterStepWait ==
    call.op = "step" =>
        /\ call.pulses = 1 =>
              /\ Pulsing.current_interval_ns = IssuedInterval
              /\ IF MoreSteps /\ WaitAfter(IssuedInterval) # W(0)
                 THEN /\ Len(call.trace) = 6
                      /\ call.trace[6] = Delay(WaitAfter(IssuedInterval))
                      /\ call.effects.delays = 2
                 ELSE /\ Len(call.trace) = 5
                      /\ call.effects.delays = 1
        /\ call.pulses = 0 =>
              \A i \in 1 .. Len(call.trace) :
                  call.trace[i].ev = "delay" => call.trace[i] = Delay(W(2000))

\* step() issued a pulse with more steps to come and waited for the interval
\* of that step less 2000 ns, an interval that the next step does not have.
C30_Witness ==
    /\ call.op = "step"
    /\ call.pulses = 1
    /\ MoreSteps
    /\ Len(call.trace) = 6
    /\ call.trace[6] = Delay(WSub(Pulsing.current_interval_ns, W(2000)))
    /\ motor.executor[1].current_interval_ns # Pulsing.current_interval_ns

\* The level of the DIR pin that stands for a direction on a motor.
DirLevel(self, direction) ==
    IF direction = Clockwise
    THEN (IF self.invert_direction THEN "low" ELSE "high")
    ELSE (IF self.invert_direction THEN "high" ELSE "low")

\* The calls that issue pulses through step().
PulseOps == { "step", "run_to_completion" }

\* The pulses that the last call issued.
PulsesIssued ==
    IF call.op \in PulseOps THEN call.pulses
    ELSE IF call.op \in BlockingOps THEN move.pulses
    ELSE 0

\* The direction of the profile that the pulses of the last call belong to.
PulsedDirection ==
    IF call.op \in PulseOps THEN call.before.executor[1].profile.direction
    ELSE call.direction[1]

\* The cached direction is the direction of the last DIR write that
\* succeeded, and there is none before the first.
CacheIsPin ==
    IF motor.current_direction = None THEN pins.dir = "unset"
    ELSE pins.dir = DirLevel(motor, motor.current_direction[1])

\* C31: whenever STEP pulses are issued, the level last written to the DIR
\* pin is the level of the direction by which Position changes for them: high
\* for Clockwise and low for CounterClockwise, the opposite on a motor with
\* invert_direction; and the cached direction is always the direction of the
\* last DIR write that succeeded.
C31_DirPinMatchesPulses ==
    /\ CacheIsPin
    /\ PulsesIssued > 0 =>
          /\ pins.dir = DirLevel(motor, PulsedDirection)
          /\ motor.current_direction = Some(PulsedDirection)
          /\ motor.position.steps =
                 WAdd(call.before.position.steps,
                      W(PulsesIssued * sign(PulsedDirection)))

\* step() issued a clockwise pulse on a motor with invert_direction, with the
\* DIR pin low, from a position other than the origin.
C31_Witness ==
    /\ call.op = "step"
    /\ call.pulses = 1
    /\ motor.invert_direction
    /\ PulsedDirection = Clockwise
    /\ pins.dir = "low"
    /\ call.before.position.steps # W(0)

\* C32: in every state between the calls of the driver, also after a call of
\* step() that returned PinError from either STEP write, the rising edges put
\* on the STEP pin (the set_high writes that succeeded) since the move began
\* are as many as the steps between Position and the position at which the
\* move began.
C32_PositionCountsRisingEdges ==
    W(test.rising) = unsigned_abs(WSub(motor.position.steps, move.start))

\* C33: in every state of an executor (after new, after any number of calls
\* of advance(), after reset()) phase() is profile.phase_at(current_step) and
\* current_interval_ns() is profile.interval_at(current_step), also at step 0
\* of a profile whose accel_steps is 0.
C33_ExecutorFollowsProfile ==
    executor # None =>
        /\ executor[1].phase =
               phase_at(executor[1].profile, executor[1].current_step)
        /\ executor[1].current_interval_ns =
               interval_at(executor[1].profile, executor[1].current_step)

\* C34: the executor is present exactly while the motor is Moving: every
\* Idle motor (built, returned by finish or run_to_completion, handed back by
\* a move_to or an execute that failed) holds no executor, every Moving motor
\* holds one, and step() never returns NotInitialized.
C34_ExecutorWhileMoving ==
    /\ motor.state = Idle => motor.executor = None
    /\ motor.state = Moving => motor.executor # None
    /\ call.op \in PulseOps => call.result # "NotInitialized"

\* run_to_completion returned the Idle motor, without its executor, after the
\* pulses of a move.
C34_Witness ==
    /\ call.op = "run_to_completion"
    /\ call.result = "Ok"
    /\ call.pulses > 0
    /\ call.before.state = Moving
    /\ call.before.executor # None
    /\ motor.state = Idle
    /\ motor.executor = None

\* The tag of every motor value; a motor that a call consumed is no value.
TaggedIdleOrMoving == motor.state \in { Idle, Moving, Dropped }

\* The changes of the tag: Idle to Moving by a move_to that succeeds, Moving
\* to Idle by finish or run_to_completion; a call that returns without the
\* motor leaves no value.
TagChange ==
    /\ motor'.state # motor.state =>
          \/ /\ motor.state = Idle
             /\ motor'.state = Moving
             /\ call'.op \in { "move_to", "move_by" }
             /\ call'.result = "Ok"
          \/ /\ motor.state = Moving
             /\ motor'.state = Idle
             /\ call'.op \in { "finish", "run_to_completion" }
             /\ call'.result = "Ok"
          \/ /\ motor'.state = Dropped
             /\ call'.result \in { "PinError", "Panic" }
    /\ (call = NoCall /\ call'.op \in { "move_to", "move_by" }) =>
          (motor'.state = Moving) = (call'.result = "Ok")
    /\ (call = NoCall /\ call'.op \in BlockingOps /\ call'.result # "Panic") =>
          motor'.state = Idle

\* C35: every motor value that the operations produce is tagged Idle or
\* Moving, never Homing or Fault, also after a pin failure; the tag changes
\* only from Idle to Moving (a move_to that succeeds) and from Moving to Idle
\* (finish, run_to_completion).
C35_OnlyIdleAndMoving == []TaggedIdleOrMoving /\ [][TagChange]_vars

\* execute handed back the Idle motor after its DIR write failed.
C35_Witness ==
    /\ call.op = "execute"
    /\ call.result = "PinError"
    /\ call.effects.dir_writes = 1
    /\ motor.state = Idle

\* The step limits of the motor that the last call was made on.
LimitsBefore == call.before.constraints.limits[1]

\* C36: the LimitExceeded that move_to returns carries the rejected target
\* in steps as its position, and as its limit the bound that this target
\* exceeds: max_steps when the target is above max_steps, min_steps when it
\* is below min_steps, wherever the motor stands.
C36_LimitExceededNamesBound ==
    (call.op \in MoveOps \cup BlockingOps /\ call.result = "LimitExceeded") =>
        /\ call.detail.position = call.target_steps
        /\ WLt(LimitsBefore.max_steps, call.target_steps) =>
               call.detail.limit = LimitsBefore.max_steps
        /\ WLt(call.target_steps, LimitsBefore.min_steps) =>
               call.detail.limit = LimitsBefore.min_steps

\* The distance in steps of the move that the last move_to was asked for.
AskedDelta == WSub(call.target_steps, call.before.position.steps)

\* C37: a move never begins complete: when move_to returns Ok, the Moving
\* motor it returns is not complete, and its profile has as many steps as
\* the distance to the target, at least 1, in the direction of the sign of
\* that distance, on every motor that the builder produces, also one with a
\* maximum velocity or acceleration that is zero or negative.
C37_MoveBeginsIncomplete ==
    (call.op \in { "move_to", "move_by" } /\ call.result = "Ok") =>
        /\ motor.state = Moving
        /\ ~motor_is_complete(motor)
        /\ motor.executor[1].profile.total_steps = unsigned_abs(AskedDelta)
        /\ WLe(W(1), motor.executor[1].profile.total_steps)
        /\ motor.executor[1].profile.direction = from_steps(AskedDelta)

\* execute refused the trajectory as the trajectory of another motor.
ForAnotherMotor ==
    /\ call.result = "InvalidName"
    /\ call.detail.message = "is for motor"

\* C38: for a configuration that validate_config accepts, the motor built
\* from the motor entry that a trajectory names (by the builder's from_config
\* or by MotorSystem::build_motor) can execute that trajectory: execute does
\* not refuse it as the trajectory of another motor, whatever the key and the
\* name field of the entry are.
C38_BuiltMotorExecutes == test.pc = "executed" => ~ForAnotherMotor
=============================================================================
